---- MODULE Spec2Model ----
(***************************************************************************)
(* FutureGen: the request-orchestration layer of src/services/             *)
(* geminiService.ts (retryOperation, extractFeatureDescription,            *)
(* generateFutureImage) as a state machine, and the App component of       *)
(* src/unnamed/part_001 that calls it.                                     *)
(*                                                                         *)
(* Conventions.  A JavaScript string is a sequence of one-character        *)
(* strings, so that trim() and truthiness are computed.  An error message  *)
(* is a sequence of words, and String.includes(marker) is "some word is    *)
(* the marker".  An optional value is <<>> (undefined/null) or <<v>>.      *)
(***************************************************************************)
EXTENDS Integers, Sequences, FiniteSets, TLC

\* ------------------------------------------------------------------ bounds
\* largest `retries` argument tried in the stand-alone retry specification
MaxRetries == 4
\* how many times the Generate button is clicked in a session
MaxGenerations == 2
\* how many times the form is acted on in a session (an input is changed or
\* Extract is clicked)
MaxFormActions == 1
\* every image dimension from 1 up to this one is tried in the stand-alone
\* specification of the two image helpers
MaxSmallDim == 40

\* ------------------------------------------------------- program constants
DefaultRetries == 3
DefaultInitialDelay == 2000
RateLimitStatus == 429
MAX_SIZE == 1024

\* ----------------------------------------------------------------- helpers
None == <<>>
Some(v) == <<v>>

\* JavaScript truthiness of an optional string: undefined and "" are falsy
TruthyStr(opt) == opt # <<>> /\ opt[1] # <<>>

Pow2(n) == IF n = 0 THEN 1 ELSE IF n = 1 THEN 2 ELSE IF n = 2 THEN 4
           ELSE IF n = 3 THEN 8 ELSE IF n = 4 THEN 16 ELSE 32

Includes(words, marker) == \E k \in 1..Len(words) : words[k] = marker

\* ------------------------------------------------------------------ errors
\* a thrown value: message (words), numeric status and code (0: field
\* absent), and the words of its other enumerable fields
Err(m, s, c, d) == [message |-> m, status |-> s, code |-> c, details |-> d]

NumWord(n) == IF n = 429 THEN "429" ELSE IF n = 403 THEN "403"
              ELSE IF n = 500 THEN "500" ELSE "0"

\* JSON.stringify(error): the enumerable fields that are present
Stringify(error) ==
    (IF error.message # <<>> THEN <<"message">> \o error.message ELSE <<>>)
    \o (IF error.status # 0 THEN <<"status", NumWord(error.status)>> ELSE <<>>)
    \o (IF error.code # 0 THEN <<"code", NumWord(error.code)>> ELSE <<>>)
    \o error.details

\* line 73: const msg = error.message || JSON.stringify(error)
ErrorMsg(error) == IF error.message # <<>> THEN error.message ELSE Stringify(error)

\* line 74
isRateLimit(error) ==
    \/ Includes(ErrorMsg(error), "429")
    \/ error.status = RateLimitStatus
    \/ error.code = RateLimitStatus
    \/ Includes(ErrorMsg(error), "quota")
    \/ Includes(ErrorMsg(error), "RESOURCE_EXHAUSTED")

ErrMsg429      == Err(<<"got", "429", "Too", "Many", "Requests">>, 0, 0, <<>>)
ErrQuota       == Err(<<"quota", "exceeded">>, 0, 0, <<>>)
ErrResExh      == Err(<<"RESOURCE_EXHAUSTED">>, 0, 0, <<>>)
ErrStatus429   == Err(<<"Too", "Many", "Requests">>, 429, 0, <<>>)
ErrCode429     == Err(<<"busy">>, 0, 429, <<>>)
ErrJsonQuota   == Err(<<>>, 0, 0, <<"error", "quota">>)
ErrNetwork     == Err(<<"network", "failure">>, 0, 0, <<>>)
ErrForbidden   == Err(<<"403", "permission", "denied">>, 403, 0, <<>>)
ErrNoMessage   == Err(<<>>, 500, 0, <<>>)

\* the errors an arbitrary operation may throw (stand-alone retry runs)
OpErrors == {ErrMsg429, ErrQuota, ErrResExh, ErrStatus429, ErrCode429,
             ErrJsonQuota, ErrNetwork, ErrForbidden, ErrNoMessage}

\* --------------------------------------------------------------- responses
\* what a remote call resolves to: text (analysis), candidates (edit),
\* generatedImages (text-to-image); unused fields are empty
Resp(t, c, g) == [text |-> t, candidates |-> c, generatedImages |-> g]

\* results of an arbitrary operation (stand-alone retry runs)
OpResults == {Resp(Some(<<"r", "1">>), <<>>, <<>>), Resp(Some(<<"r", "2">>), <<>>, <<>>)}

\* the outcome of an awaited call: resolved with a value or rejected with an error
Outcome(ok, v) == [ok |-> ok, value |-> v]

\* errors the remote service may answer with inside a generate call
RemoteErrors == {ErrMsg429, ErrStatus429, ErrForbidden, ErrNoMessage}

\* ------------------------------------------------------------------- types
\* src/types.ts
SQUARE == "1:1"
PORTRAIT == "3:4"
LANDSCAPE == "4:3"
WIDE_LANDSCAPE == "16:9"
WIDE_PORTRAIT == "9:16"
SAME_AS_SOURCE == "SAME_AS_SOURCE"
AspectRatio == {SQUARE, PORTRAIT, LANDSCAPE, WIDE_LANDSCAPE, WIDE_PORTRAIT, SAME_AS_SOURCE}

POSE == "Pose"
DRESS == "Dress / Outfit"
EXPRESSION == "Facial Expression"
STYLE == "Artistic Style"
BACKGROUND == "Background"
COMPOSITION == "Composition"
CUSTOM == "Custom Feature"
ReferenceMode == {POSE, DRESS, EXPRESSION, STYLE, BACKGROUND, COMPOSITION, CUSTOM}

GEMINI_2_5 == "gemini-2.5-flash-image"
GEMINI_3_PRO == "gemini-3-pro-image-preview"
IMAGEN_4 == "imagen-4.0-generate-001"
ModelId == {GEMINI_2_5, GEMINI_3_PRO, IMAGEN_4}

\* an optional enum value that was not given
Undefined == "undefined"

\* ImageAsset; `decodable` is whether the browser can decode `data` as an
\* image of type mimeType (img.onload versus img.onerror)
Asset(d, m, w, h, ok) == [data |-> d, mimeType |-> m, width |-> w, height |-> h, decodable |-> ok]

\* JavaScript truthiness of an optional number: undefined and 0 are falsy
TruthyNum(opt) == opt # <<>> /\ opt[1] # 0

\* String.prototype.trim on a sequence of characters
IsSpace(c) == c = " "

RECURSIVE TrimLeft(_)
TrimLeft(s) == IF s # <<>> /\ IsSpace(Head(s)) THEN TrimLeft(Tail(s)) ELSE s

RECURSIVE TrimRight(_)
TrimRight(s) == IF s # <<>> /\ IsSpace(s[Len(s)]) THEN TrimRight(SubSeq(s, 1, Len(s) - 1)) ELSE s

Trim(s) == TrimRight(TrimLeft(s))

\* --------------------------------------------------- getClosestSupportedRatio
\* the supported values, times 10000
Supported == <<[str |-> "1:1", val |-> 10000],
               [str |-> "3:4", val |-> 7500],
               [str |-> "4:3", val |-> 13300],
               [str |-> "9:16", val |-> 5625],
               [str |-> "16:9", val |-> 17700]>>

Abs(x) == IF x < 0 THEN 0 - x ELSE x

\* line 6 with the quotient inverted
RatioDiffInverted(entry, width, height) == Abs(entry.val * width - 10000 * height)

\* |val - width/height|, times 10000*height
RatioDiff(entry, width, height) == Abs(entry.val * height - 10000 * width)

\* line 17 with <= in place of <
RECURSIVE ReduceClosestLastWins(_, _, _, _)
ReduceClosestLastWins(k, prev, width, height) ==
    IF k > Len(Supported) THEN prev
    ELSE ReduceClosestLastWins(k + 1,
            IF RatioDiff(Supported[k], width, height) <= RatioDiff(prev, width, height)
              THEN Supported[k] ELSE prev,
            width, height)

RECURSIVE ReduceClosest(_, _, _, _)
ReduceClosest(k, prev, width, height) ==
    IF k > Len(Supported) THEN prev
    ELSE ReduceClosest(k + 1,
            IF RatioDiff(Supported[k], width, height) < RatioDiff(prev, width, height)
              THEN Supported[k] ELSE prev,
            width, height)

\* lines 15-18: the reduce starts from the first entry
ClosestIsFirstEntry(width, height) == Supported[1].str

getClosestSupportedRatio(width, height) ==
    ReduceClosest(2, Supported[1], width, height).str

\* lines 167-180 of generateFutureImage
ResolveRatioNoFallback(aspectRatio, sourceWidth, sourceHeight) ==
    IF aspectRatio = SAME_AS_SOURCE /\ TruthyNum(sourceWidth) /\ TruthyNum(sourceHeight)
      THEN getClosestSupportedRatio(sourceWidth[1], sourceHeight[1])
      ELSE aspectRatio

ResolveRatio(aspectRatio, sourceWidth, sourceHeight) ==
    IF aspectRatio = SAME_AS_SOURCE /\ TruthyNum(sourceWidth) /\ TruthyNum(sourceHeight)
      THEN getClosestSupportedRatio(sourceWidth[1], sourceHeight[1])
      ELSE IF aspectRatio = SAME_AS_SOURCE THEN SQUARE
      ELSE aspectRatio

\* lines 190-193 with the landscape and portrait literals exchanged
ImagenAspectSwapped(targetRatio) ==
    IF targetRatio = SQUARE THEN "1:1"
    ELSE IF targetRatio = LANDSCAPE THEN "3:4"
    ELSE IF targetRatio = WIDE_LANDSCAPE THEN "16:9"
    ELSE IF targetRatio = PORTRAIT THEN "4:3"
    ELSE "9:16"

\* lines 190-193: the ratio put into the text-to-image request
ImagenAspect(targetRatio) ==
    IF targetRatio = SQUARE THEN "1:1"
    ELSE IF targetRatio = LANDSCAPE THEN "4:3"
    ELSE IF targetRatio = WIDE_LANDSCAPE THEN "16:9"
    ELSE IF targetRatio = PORTRAIT THEN "3:4"
    ELSE "9:16"

\* line 164
EffectiveModelImagenDefault(modelId) == IF modelId = Undefined THEN IMAGEN_4 ELSE modelId

EffectiveModel(modelId) == IF modelId = Undefined THEN GEMINI_2_5 ELSE modelId

\* ------------------------------------------------------------ compressImage
\* Math.round(num / den) for positive integers: the nearest integer, halves up
RoundDiv(num, den) == (2 * num + den) \div (2 * den)

\* lines 27-43 without the branch of line 32
CompressedSizeUnscaled(w, h) == [width |-> w, height |-> h]

\* lines 27-43: the canvas size for a decoded image of w x h pixels
CompressedSize(w, h) ==
    IF w > MAX_SIZE \/ h > MAX_SIZE
      THEN IF w > h
             THEN [width |-> MAX_SIZE, height |-> RoundDiv(h * MAX_SIZE, w)]
             ELSE [width |-> RoundDiv(w * MAX_SIZE, h), height |-> MAX_SIZE]
      ELSE [width |-> w, height |-> h]

\* lines 52-56: the re-encoded payload and its type
Compressed(image) == [data |-> <<"jpeg", image.data>>, mimeType |-> "image/jpeg"]

ErrDecode == Err(<<"Failed", "to", "process", "image">>, 0, 0, <<>>)
ErrCanvas == Err(<<"Canvas", "context", "not", "available">>, 0, 0, <<>>)
ErrApiKey == Err(<<"API", "Key", "not", "found", "in", "environment", "variables.">>, 0, 0, <<>>)

\* how a compressImage call on `image` can end: img.onerror when the payload
\* does not decode; otherwise img.onload, where getContext may return null
CompressOutcomes(image) ==
    IF image.decodable
      THEN {Outcome(TRUE, Compressed(image)), Outcome(FALSE, ErrCanvas)}
      ELSE {Outcome(FALSE, ErrDecode)}

\* ------------------------------------------------------------ request parts
ImagePart(p) == [inlineData |-> Some(p), text |-> <<>>]
TextPart(t) == [inlineData |-> None, text |-> t]

\* one `instruction += ...` : the literal text and the interpolated string
Line(t, a) == [tag |-> t, arg |-> a]

\* lines 99-126 of extractFeatureDescription
AnalysisPrompt(mode, customPrompt) ==
    IF mode = POSE THEN Line("Analyze the image and describe the body pose.", <<>>)
    ELSE IF mode = DRESS THEN Line("Analyze the clothing in this image.", <<>>)
    ELSE IF mode = EXPRESSION THEN Line("Describe the facial expression and emotion shown in this image.", <<>>)
    ELSE IF mode = STYLE THEN Line("Describe the art style, lighting, and medium of this image.", <<>>)
    ELSE IF mode = BACKGROUND THEN Line("Describe the setting, background elements, and lighting environment of this scene.", <<>>)
    ELSE IF mode = COMPOSITION THEN Line("Describe the camera angle, framing, and composition of this shot.", <<>>)
    ELSE IF mode = CUSTOM THEN
        (IF TruthyStr(customPrompt)
           THEN Line("Analyze the image and provide a detailed description of the following feature:", customPrompt[1])
           ELSE Line("Describe the key distinctive visual attributes of this image.", <<>>))
    ELSE Line("Describe the key visual attributes of this image.", <<>>)

\* lines 130-138
AnalyzeRequest(processed, promptLine) ==
    [kind |-> "analyze", model |-> "gemini-2.5-flash",
     parts |-> <<ImagePart(processed), TextPart(<<promptLine>>)>>,
     prompt |-> <<>>, aspectRatio |-> "", imageSize |-> "", safetySettings |-> <<>>]

\* lines 93-94 and 158-159: if (!apiKey)
CredentialMissingNever(key) == FALSE

CredentialMissing(key) == ~key

\* line 216
GuidanceBlock(desc) == <<Line("VISUAL DESCRIPTION OF REFERENCE (for guidance):", desc)>>

\* line 140 and lines 215-217: the guidance built from what extraction gave
GuidanceOfDropped(desc) == <<>>

GuidanceOf(desc) == IF desc # <<>> THEN GuidanceBlock(desc) ELSE <<>>

\* lines 265-300: the transfer directive of a reference mode
ModeDirective(mode, customReferencePrompt) ==
    IF mode = POSE THEN <<Line("MODE: POSE MATCHING", <<>>)>>
    ELSE IF mode = DRESS THEN <<Line("MODE: OUTFIT TRANSFER", <<>>)>>
    ELSE IF mode = EXPRESSION THEN <<Line("MODE: EXPRESSION MATCHING", <<>>)>>
    ELSE IF mode = STYLE THEN <<Line("MODE: STYLE TRANSFER", <<>>)>>
    ELSE IF mode = BACKGROUND THEN <<Line("MODE: BACKGROUND TRANSFER", <<>>)>>
    ELSE IF mode = COMPOSITION THEN <<Line("MODE: COMPOSITION MATCHING", <<>>)>>
    ELSE IF mode = CUSTOM THEN
        <<Line("MODE: CUSTOM TRANSFER",
               IF TruthyStr(customReferencePrompt) THEN customReferencePrompt[1]
               ELSE <<"f", "e", "a", "t", "u", "r", "e">>)>>
    ELSE <<>>

\* lines 306-308
UserInstructions(prompt) ==
    IF prompt # <<>> /\ Trim(prompt) # <<>>
      THEN <<Line("USER INSTRUCTIONS:", prompt)>>
      ELSE <<>>

\* lines 250-308: the instruction text
Instruction(hasRef, guidance, config) ==
    (IF hasRef
       THEN <<Line("I have provided TWO images above.", <<>>),
              Line("TASK: Create a high-quality NEW image of the Source Character that adopts the specific attribute from the Reference Image.", <<>>)>>
            \o guidance
            \o ModeDirective(config.referenceMode, config.customReferencePrompt)
       ELSE <<Line("I have provided ONE image. It is the Source Image.", <<>>),
              Line("TASK: Edit this image based on the user instructions. PRESERVE IDENTITY.", <<>>)>>)
    \o UserInstructions(config.prompt)

\* lines 230-247 and 310: [Source, Reference, Text]
BuildPartsTextFirst(pSource, pRef, instruction) ==
    <<TextPart(instruction), ImagePart(pSource)>>
    \o (IF pRef # None THEN <<ImagePart(pRef[1])>> ELSE <<>>)

BuildParts(pSource, pRef, instruction) ==
    <<ImagePart(pSource)>>
    \o (IF pRef # None THEN <<ImagePart(pRef[1])>> ELSE <<>>)
    \o <<TextPart(instruction)>>

\* lines 324-329
SafetySettings == <<[category |-> "HARM_CATEGORY_HARASSMENT", threshold |-> "BLOCK_ONLY_HIGH"],
                    [category |-> "HARM_CATEGORY_HATE_SPEECH", threshold |-> "BLOCK_ONLY_HIGH"],
                    [category |-> "HARM_CATEGORY_SEXUALLY_EXPLICIT", threshold |-> "BLOCK_ONLY_HIGH"],
                    [category |-> "HARM_CATEGORY_DANGEROUS_CONTENT", threshold |-> "BLOCK_ONLY_HIGH"]>>

\* lines 313-331 with the spread of line 320 unconditional
EditRequestAlwaysSized(mdl, partList, ratio) ==
    [kind |-> "edit", model |-> mdl, parts |-> partList, prompt |-> <<>>,
     aspectRatio |-> ratio, imageSize |-> "1K", safetySettings |-> SafetySettings]

\* lines 313-331
EditRequest(mdl, partList, ratio) ==
    [kind |-> "edit", model |-> mdl, parts |-> partList, prompt |-> <<>>,
     aspectRatio |-> ratio,
     imageSize |-> IF mdl = GEMINI_3_PRO THEN "1K" ELSE "",
     safetySettings |-> SafetySettings]

\* lines 185-196
ImagenRequest(prompt, ratio) ==
    [kind |-> "imagen", model |-> IMAGEN_4, parts |-> <<>>, prompt |-> prompt,
     aspectRatio |-> ImagenAspect(ratio), imageSize |-> "", safetySettings |-> <<>>]

\* ------------------------------------------------------ remote responses
Candidate(reason, content) == [finishReason |-> reason, parts |-> content]
InlinePart(d) == [inlineData |-> Some(d), text |-> <<>>]
TextOnlyPart == [inlineData |-> None, text |-> <<"o", "k">>]

AnalysisResponses ==
    {Resp(None, <<>>, <<>>), Resp(Some(<<>>), <<>>, <<>>),
     Resp(Some(<<"s", "i", "l", "k">>), <<>>, <<>>)}

\* finishReason "" : the field is absent; parts None : content is absent
EditResponses ==
    {Resp(None, <<>>, <<>>),
     Resp(None, <<Candidate("STOP", Some(<<InlinePart("img1")>>))>>, <<>>),
     Resp(None, <<Candidate("STOP", Some(<<TextOnlyPart, InlinePart("img3"), InlinePart("img2")>>))>>, <<>>),
     Resp(None, <<Candidate("STOP", Some(<<TextOnlyPart>>))>>, <<>>),
     Resp(None, <<Candidate("STOP", None)>>, <<>>),
     Resp(None, <<Candidate("", Some(<<InlinePart("img2")>>))>>, <<>>),
     Resp(None, <<Candidate("SAFETY", Some(<<InlinePart("img1")>>)),
                  Candidate("STOP", Some(<<InlinePart("img2")>>))>>, <<>>),
     Resp(None, <<Candidate("RECITATION", None)>>, <<>>),
     Resp(None, <<Candidate("IMAGE_RECITATION", Some(<<TextOnlyPart>>))>>, <<>>),
     Resp(None, <<Candidate("MAX_TOKENS", Some(<<InlinePart("img1")>>))>>, <<>>)}

ImagenResponses ==
    {Resp(None, <<>>, <<>>), Resp(None, <<>>, <<"gen1">>), Resp(None, <<>>, <<"gen2", "gen1">>)}

ResultsOf(op) ==
    IF op = "analyze" THEN AnalysisResponses
    ELSE IF op = "edit" THEN EditResponses
    ELSE IF op = "imagen" THEN ImagenResponses
    ELSE OpResults

ErrorsOf(op) == IF op = "op" THEN OpErrors ELSE RemoteErrors

\* ------------------------------------------------- response interpretation
Ok(v) == [ok |-> TRUE, value |-> v, error |-> Err(<<>>, 0, 0, <<>>)]
Fail(e) == [ok |-> FALSE, value |-> "", error |-> e]

\* new Error(text)
NewError(words) == Err(words, 0, 0, <<>>)

\* lines 349-354: the loop returns at the first part with inlineData
RECURSIVE LastInline(_)
LastInline(partList) ==
    IF partList = <<>> THEN None
    ELSE IF partList[Len(partList)].inlineData # None THEN partList[Len(partList)].inlineData
    ELSE LastInline(SubSeq(partList, 1, Len(partList) - 1))

RECURSIVE FirstInline(_)
FirstInline(partList) ==
    IF partList = <<>> THEN None
    ELSE IF Head(partList).inlineData # None THEN Head(partList).inlineData
    ELSE FirstInline(Tail(partList))

\* lines 333-356 with the part loop of lines 349-354 ahead of the finish
\* reason check of lines 340-346
InterpretEditImageFirst(response) ==
    IF response.candidates = <<>>
      THEN Fail(NewError(<<"No", "response", "from", "AI", "model.">>))
    ELSE LET candidate == response.candidates[1] IN
      IF candidate.parts # None /\ FirstInline(candidate.parts[1]) # None
        THEN Ok(FirstInline(candidate.parts[1])[1])
      ELSE IF candidate.finishReason # "" /\ candidate.finishReason # "STOP"
        THEN IF candidate.finishReason \in {"RECITATION", "IMAGE_RECITATION", "SAFETY"}
               THEN Fail(NewError(<<"Generation", "blocked:", "The", "request", "was", "flagged", "for", candidate.finishReason,
                         "(likely", "too", "close", "to", "a", "protected", "image", "or", "person).",
                         "Try", "a", "different", "reference.">>))
               ELSE Fail(NewError(<<"Generation", "blocked", "by", "filter:", candidate.finishReason>>))
      ELSE Fail(NewError(<<"The", "model", "generated", "a", "text", "response", "instead", "of", "an", "image.",
                        "Please", "try", "adjusting", "your", "prompt.">>))

\* lines 333-356: what the try block does with a response
InterpretEdit(response) ==
    IF response.candidates = <<>>
      THEN Fail(NewError(<<"No", "response", "from", "AI", "model.">>))
    ELSE LET candidate == response.candidates[1] IN
      IF candidate.finishReason # "" /\ candidate.finishReason # "STOP"
        THEN IF candidate.finishReason \in {"RECITATION", "IMAGE_RECITATION", "SAFETY"}
               THEN Fail(NewError(<<"Generation", "blocked:", "The", "request", "was", "flagged", "for", candidate.finishReason,
                         "(likely", "too", "close", "to", "a", "protected", "image", "or", "person).",
                         "Try", "a", "different", "reference.">>))
               ELSE Fail(NewError(<<"Generation", "blocked", "by", "filter:", candidate.finishReason>>))
      ELSE IF candidate.parts # None /\ FirstInline(candidate.parts[1]) # None
        THEN Ok(FirstInline(candidate.parts[1])[1])
      ELSE Fail(NewError(<<"The", "model", "generated", "a", "text", "response", "instead", "of", "an", "image.",
                        "Please", "try", "adjusting", "your", "prompt.">>))

\* lines 357-360: the catch block rewraps by message only
WrapEditError(e) ==
    NewError(IF e.message # <<>> THEN e.message ELSE <<"Failed", "to", "generate", "image.">>)

\* lines 198-204
InterpretImagen(response) ==
    IF Len(response.generatedImages) > 0
      THEN Ok(response.generatedImages[1])
      ELSE Fail(NewError(<<"No", "image", "generated", "by", "Imagen.">>))

\* line 203: `Imagen Generation Failed: ${e.message}`
WrapImagenError(e) ==
    NewError(<<"Imagen", "Generation", "Failed:">>
             \o (IF e.message # <<>> THEN e.message ELSE <<"undefined">>))

\* ------------------------------------------------------------------ inputs
Prompts == {<<>>, <<" ", " ">>, <<"a", "d", "d">>}

CustomPrompts == {None, Some(<<>>), Some(<<" ">>), Some(<<"h", "a", "t">>)}

SourceDims == {<<None, None>>, <<Some(800), None>>, <<None, Some(600)>>,
               <<Some(800), Some(600)>>, <<Some(1080), Some(1920)>>}

SourceImages == {Asset("src", "image/png", d[1], d[2], ok) : d \in SourceDims, ok \in BOOLEAN}

ReferenceImages == {None} \cup {Some(Asset("ref", "image/webp", None, None, ok)) : ok \in BOOLEAN}

Configs == [prompt : Prompts, aspectRatio : AspectRatio,
            referenceMode : ReferenceMode \cup {Undefined},
            customReferencePrompt : CustomPrompts,
            modelId : ModelId \cup {Undefined}]

\* the ratio inputs tried together with a reference image
RefRatioCases == {<<SAME_AS_SOURCE, Some(800), Some(600)>>, <<SAME_AS_SOURCE, None, None>>,
                  <<WIDE_LANDSCAPE, Some(800), Some(600)>>}

\* the calls of generateFutureImage that are explored.  Every ratio input is
\* tried without a reference image and every reference input with the ratio
\* inputs of RefRatioCases (lines 166-180 read no reference input); a custom
\* feature text comes only with mode Custom (no other mode reads it), and the
\* less common source dimensions only with SAME_AS_SOURCE (no other ratio
\* reads them).
GenerateCalls ==
    {c \in [sourceImage : SourceImages, referenceImage : ReferenceImages, config : Configs] :
        /\ c.config.customReferencePrompt # None => c.config.referenceMode = CUSTOM
        /\ c.config.aspectRatio # SAME_AS_SOURCE =>
               <<c.sourceImage.width, c.sourceImage.height>> \in {<<None, None>>, <<Some(800), Some(600)>>}
        /\ c.referenceImage = None => c.config.referenceMode \in {Undefined, DRESS}
        /\ c.referenceImage # None =>
               <<c.config.aspectRatio, c.sourceImage.width, c.sourceImage.height>> \in RefRatioCases}

NoAsset == Asset("", "", None, None, FALSE)
NoConfig == [prompt |-> <<>>, aspectRatio |-> SQUARE, referenceMode |-> Undefined,
             customReferencePrompt |-> None, modelId |-> Undefined]
NoProcessed == [data |-> <<>>, mimeType |-> ""]
NoLine == Line("", <<>>)
NoResult == [ok |-> FALSE, value |-> "", error |-> Err(<<>>, 0, 0, <<>>)]

VARIABLES
    \* ---- retryOperation (one run at a time; its locals)
    rop,            \* the operation it runs: "none" | "op" | "analyze" | "edit" | "imagen"
    rpc,            \* "idle" | "calling" | "waiting" | "returned" | "threw"
    ri,             \* loop index i
    retries,        \* argument retries
    initialDelay,   \* argument initialDelay
    lastError,      \* optional: lastError (line 67)
    outcomes,       \* history: outcome of each invocation of operation, in order
    waits,          \* history: the delays waited, in order
    rresult,        \* optional: the value returned or thrown ( <<>> : undefined )
    \* ---- environment
    apiKey,         \* process.env.API_KEY is set
    requests,       \* history: the remote requests issued, in order
    compressLog,    \* history: the payloads compressImage was called on, in order
    \* ---- extractFeatureDescription
    epc,            \* "idle" | "compressing" | "analyzing" | "returned" | "threw"
    eimage,         \* argument image
    emode,          \* argument mode
    ecustom,        \* argument customPrompt
    promptText,     \* the analysis instruction
    eresult,        \* what it returned (ok, value) or threw (error)
    \* ---- generateFutureImage
    gpc,            \* "idle" | "extracting" | "compressSource" | "compressRef"
                    \* | "calling" | "imagen" | "succeeded" | "failed"
    sourceImage, referenceImage, config,    \* arguments
    model, targetRatio,
    guidanceDescription,
    processedSource, processedRef,
    parts,
    gresult,        \* what it returned or threw
    exhausted,      \* history: the call failed by using up the attempts of its
                    \* edit or text-to-image call on rate-limit errors
    \* ---- App (React state; the names of part_001 lines 8-24, with the prefix
    \*      ui where the name is taken above)
    uiSourceImage,  \* sourceImage: optional asset
    refImage,       \* optional asset
    useRefImage,
    uiPrompt,       \* prompt
    uiAspectRatio,  \* aspectRatio
    refMode,
    customRefPrompt,
    selectedModel,
    generatedImage, \* optional image data
    uiHistory,      \* history
    isGenerating,
    uiError,        \* error: optional message
    isExtracting,
    extractedText,  \* optional text
    extractArgs,    \* optional: the arguments of the pending call of
                    \* extractFeatureDescription made by handleExtractFeature
    inFlight,       \* the calls of generateFutureImage that have not settled
    generations,    \* how many times handleGenerate has run
    formActions,    \* how many times an input was changed or Extract clicked
    \* ---- the image helpers, stand-alone
    imgWidth, imgHeight,    \* the decoded image's img.width, img.height
    imgMimeType,            \* argument mimeType
    closest,                \* optional: what getClosestSupportedRatio returned
    compressed              \* optional: how compressImage settled

rvars == <<rop, rpc, ri, retries, initialDelay, lastError, outcomes, waits, rresult>>
envvars == <<apiKey, requests, compressLog>>
evars == <<epc, eimage, emode, ecustom, promptText, eresult>>
gargs == <<sourceImage, referenceImage, config>>
gvars == <<gpc, sourceImage, referenceImage, config, model, targetRatio,
           guidanceDescription, processedSource, processedRef, parts, gresult>>
uiInputs == <<uiSourceImage, refImage, useRefImage, uiPrompt, uiAspectRatio, refMode,
              customRefPrompt, selectedModel>>
uiOutputs == <<generatedImage, uiHistory, isGenerating, uiError>>
xvars == <<isExtracting, extractedText, extractArgs>>
uivars == <<uiInputs, uiOutputs, xvars, inFlight, generations, formActions>>
pvars == <<imgWidth, imgHeight, imgMimeType, closest, compressed>>
vars == <<rop, rpc, ri, retries, initialDelay, lastError, outcomes, waits, rresult,
          apiKey, requests, compressLog,
          epc, eimage, emode, ecustom, promptText, eresult,
          gpc, sourceImage, referenceImage, config, model, targetRatio,
          guidanceDescription, processedSource, processedRef, parts, gresult,
          exhausted,
          uiSourceImage, refImage, useRefImage, uiPrompt, uiAspectRatio, refMode,
          customRefPrompt, selectedModel, generatedImage, uiHistory, isGenerating, uiError,
          isExtracting, extractedText, extractArgs,
          inFlight, generations, formActions,
          imgWidth, imgHeight, imgMimeType, closest, compressed>>

\* --------------------------------------------------------- retryOperation
\* line 77
BackoffDelayConstant(delay0, i) == delay0

\* line 77 with a linear growth
BackoffDelayLinear(delay0, i) == delay0 * (i + 1)

BackoffDelay(delay0, i) == delay0 * Pow2(i)

\* line 76
ShouldRetryAny(error, i, n) == i < n - 1

ShouldRetry(error, i, n) == isRateLimit(error) /\ i < n - 1

\* line 82: the catch block throws the error it just caught
RethrownFirst(error, history) ==
    IF history # <<>> /\ ~history[1].ok THEN history[1].value ELSE error

Rethrown(error, history) == error

\* the request one invocation of the operation sends
RequestOf(op) ==
    IF op = "analyze" THEN <<AnalyzeRequest(Compressed(eimage), promptText)>>
    ELSE IF op = "edit" THEN <<EditRequest(model, parts, targetRatio)>>
    ELSE IF op = "imagen" THEN <<ImagenRequest(config.prompt, targetRatio)>>
    ELSE <<>>

RetryIdle ==
    /\ rop = "none" /\ rpc = "idle" /\ ri = 0 /\ retries = 0 /\ initialDelay = 0
    /\ lastError = None /\ outcomes = <<>> /\ waits = <<>> /\ rresult = None

\* retryOperation with a budget and a delay that the invocations already
\* made within the generate call have used up
RetryBeginCarried(op, n, d) ==
    /\ rop' = op
    /\ retries' = IF n > Len(requests) THEN n - Len(requests) ELSE 0
    /\ initialDelay' = d * Pow2(Len(requests))
    /\ ri' = 0
    /\ lastError' = None
    /\ outcomes' = <<>>
    /\ waits' = <<>>
    /\ rresult' = None
    /\ rpc' = IF n > Len(requests) THEN "calling" ELSE "threw"

\* retryOperation(operation, n, d) up to its first suspension: the loop is
\* entered and operation() invoked when n > 0, else line 85 throws lastError
RetryBegin(op, n, d) ==
    /\ rop' = op
    /\ retries' = n
    /\ initialDelay' = d
    /\ ri' = 0
    /\ lastError' = None
    /\ outcomes' = <<>>
    /\ waits' = <<>>
    /\ rresult' = None
    /\ rpc' = IF n > 0 THEN "calling" ELSE "threw"

\* the run's promise has been consumed by the awaiting caller
RetryEnd ==
    /\ rop' = "none" /\ rpc' = "idle" /\ ri' = 0 /\ retries' = 0 /\ initialDelay' = 0
    /\ lastError' = None /\ outcomes' = <<>> /\ waits' = <<>> /\ rresult' = None

\* line 70: the awaited operation resolves
OperationResolves ==
    /\ UNCHANGED <<exhausted, uivars, pvars>>
    /\ rpc = "calling"
    /\ \E v \in ResultsOf(rop) :
         /\ outcomes' = Append(outcomes, Outcome(TRUE, v))
         /\ rresult' = Some(v)
    /\ rpc' = "returned"
    /\ UNCHANGED <<rop, ri, retries, initialDelay, lastError, waits>>
    /\ UNCHANGED <<envvars, evars, gvars>>

\* lines 71-82: the awaited operation rejects
OperationRejects ==
    /\ UNCHANGED <<exhausted, uivars, pvars>>
    /\ rpc = "calling"
    /\ \E e \in ErrorsOf(rop) :
         /\ outcomes' = Append(outcomes, Outcome(FALSE, e))
         /\ lastError' = Some(e)
         /\ IF ShouldRetry(e, ri, retries)
              THEN /\ rpc' = "waiting"
                   /\ rresult' = None
              ELSE /\ rpc' = "threw"
                   /\ rresult' = Some(Rethrown(e, outcomes))
    /\ UNCHANGED <<rop, ri, retries, initialDelay, waits>>
    /\ UNCHANGED <<envvars, evars, gvars>>

\* lines 79-80 and 68-70: the timer fires, i++, and operation() is invoked
\* again (i < retries holds: the wait is entered only when i < retries - 1)
WaitElapses ==
    /\ UNCHANGED <<exhausted, uivars, pvars>>
    /\ rpc = "waiting"
    /\ waits' = Append(waits, BackoffDelay(initialDelay, ri))
    /\ ri' = ri + 1
    /\ rpc' = "calling"
    /\ requests' = requests \o RequestOf(rop)
    /\ UNCHANGED <<rop, retries, initialDelay, lastError, outcomes, rresult>>
    /\ UNCHANGED <<apiKey, compressLog, evars, gvars>>

\* ------------------------------------------------ extractFeatureDescription
\* lines 93-97, up to the await of compressImage
ExtractBegin(image, mode, customPrompt) ==
    /\ eimage' = image
    /\ emode' = mode
    /\ ecustom' = customPrompt
    /\ promptText' = NoLine
    /\ IF CredentialMissing(apiKey)
         THEN /\ epc' = "threw"
              /\ eresult' = Fail(ErrApiKey)
              /\ compressLog' = compressLog
         ELSE /\ epc' = "compressing"
              /\ eresult' = NoResult
              /\ compressLog' = Append(compressLog, image.data)

\* line 97 completes; lines 99-130 up to the await of the analysis call.
\* A rejection of compressImage is outside the try block of line 128.
ExtractCompressDone ==
    /\ UNCHANGED <<exhausted, uivars, pvars>>
    /\ epc = "compressing"
    /\ \E o \in CompressOutcomes(eimage) :
         IF o.ok
           THEN /\ promptText' = AnalysisPrompt(emode, ecustom)
                /\ epc' = "analyzing"
                /\ eresult' = eresult
                /\ RetryBegin("analyze", DefaultRetries, DefaultInitialDelay)
                /\ requests' = Append(requests, AnalyzeRequest(o.value, AnalysisPrompt(emode, ecustom)))
           ELSE /\ epc' = "threw"
                /\ eresult' = Fail(o.value)
                /\ UNCHANGED <<promptText, requests, rvars>>
    /\ UNCHANGED <<apiKey, compressLog, eimage, emode, ecustom, gvars>>

\* line 140
ResponseText(response) ==
    IF TruthyStr(response.text) THEN response.text[1] ELSE <<>>

\* lines 141-143: "" is returned; that an error was caught (and logged, line
\* 142) is kept in the error field for the record
ErrLogged == Err(<<"Feature", "Extraction", "Error:">>, 0, 0, <<>>)

Swallowed(e) == [ok |-> TRUE, value |-> <<>>, error |-> ErrLogged]

\* lines 140-144: the analysis call settled
ExtractFinish ==
    /\ UNCHANGED <<exhausted, uivars, pvars>>
    /\ epc = "analyzing"
    /\ rop = "analyze"
    /\ rpc \in {"returned", "threw"}
    /\ epc' = "returned"
    /\ eresult' = IF rpc = "returned" THEN Ok(ResponseText(rresult[1])) ELSE Swallowed(rresult[1])
    /\ RetryEnd
    /\ UNCHANGED <<envvars, eimage, emode, ecustom, promptText, gvars>>

\* ------------------------------------------------------ generateFutureImage
\* lines 310-313: compose the parts and start the edit call
ComposeAndCall(pSource, pRef) ==
    LET partList == BuildParts(pSource, pRef,
                        Instruction(pRef # None, guidanceDescription, config))
    IN  /\ parts' = partList
        /\ gpc' = "calling"
        /\ RetryBegin("edit", DefaultRetries, DefaultInitialDelay)
        /\ requests' = Append(requests, EditRequest(model, partList, targetRatio))

\* lines 158-214/224, up to the first await
GenerateBegin(c) ==
    /\ sourceImage' = c.sourceImage
    /\ referenceImage' = c.referenceImage
    /\ config' = c.config
    /\ IF CredentialMissing(apiKey)
         THEN /\ gpc' = "failed"
              /\ gresult' = Fail(ErrApiKey)
              /\ UNCHANGED <<model, targetRatio, requests, compressLog, rvars, evars>>
         ELSE LET m == EffectiveModel(c.config.modelId)
                  r == ResolveRatio(c.config.aspectRatio, c.sourceImage.width, c.sourceImage.height)
              IN  /\ model' = m
                  /\ targetRatio' = r
                  /\ gresult' = NoResult
                  /\ IF m = IMAGEN_4
                       THEN /\ gpc' = "imagen"
                            /\ RetryBegin("imagen", DefaultRetries, DefaultInitialDelay)
                            /\ requests' = Append(requests, ImagenRequest(c.config.prompt, r))
                            /\ UNCHANGED <<compressLog, evars>>
                       ELSE IF c.referenceImage # None /\ c.config.referenceMode # Undefined
                       THEN /\ gpc' = "extracting"
                            /\ ExtractBegin(c.referenceImage[1], c.config.referenceMode,
                                            c.config.customReferencePrompt)
                            /\ UNCHANGED <<requests, rvars>>
                       ELSE /\ gpc' = "compressSource"
                            /\ compressLog' = Append(compressLog, c.sourceImage.data)
                            /\ UNCHANGED <<requests, rvars, evars>>
    /\ UNCHANGED <<apiKey, guidanceDescription, processedSource, processedRef, parts, exhausted>>

\* a call of generateFutureImage with arbitrary arguments
Generate ==
    /\ gpc = "idle"
    /\ epc = "idle"
    /\ rpc = "idle"
    /\ \E c \in GenerateCalls : GenerateBegin(c)
    /\ UNCHANGED <<uivars, pvars>>

\* lines 214-224 without the catch of line 218
GuidanceDoneNoCatch ==
    /\ UNCHANGED <<exhausted, uivars, pvars>>
    /\ gpc = "extracting"
    /\ epc \in {"returned", "threw"}
    /\ guidanceDescription' = IF epc = "returned" THEN GuidanceOf(eresult.value) ELSE <<>>
    /\ IF epc = "threw"
         THEN /\ gpc' = "failed"
              /\ gresult' = eresult
              /\ compressLog' = compressLog
         ELSE /\ gpc' = "compressSource"
              /\ gresult' = gresult
              /\ compressLog' = Append(compressLog, sourceImage.data)
    /\ UNCHANGED <<apiKey, requests, rvars, evars, gargs, model, targetRatio,
                   processedSource, processedRef, parts>>

\* lines 214-224: extraction settled; a throw is caught at line 218
GuidanceDone ==
    /\ UNCHANGED <<exhausted, uivars, pvars>>
    /\ gpc = "extracting"
    /\ epc \in {"returned", "threw"}
    /\ guidanceDescription' = IF epc = "returned" THEN GuidanceOf(eresult.value) ELSE <<>>
    /\ gpc' = "compressSource"
    /\ compressLog' = Append(compressLog, sourceImage.data)
    /\ UNCHANGED <<apiKey, requests, rvars, evars, gargs, model, targetRatio,
                   processedSource, processedRef, parts, gresult>>

\* line 224 completes; lines 225-227 or 230-313
CompressSourceDone ==
    /\ UNCHANGED <<exhausted, uivars, pvars>>
    /\ gpc = "compressSource"
    /\ \E o \in CompressOutcomes(sourceImage) :
         IF ~o.ok
           THEN /\ gpc' = "failed"
                /\ gresult' = Fail(o.value)
                /\ UNCHANGED <<processedSource, parts, requests, compressLog, rvars>>
           ELSE /\ processedSource' = o.value
                /\ gresult' = gresult
                /\ IF referenceImage # None
                     THEN /\ gpc' = "compressRef"
                          /\ compressLog' = Append(compressLog, referenceImage[1].data)
                          /\ UNCHANGED <<parts, requests, rvars>>
                     ELSE /\ ComposeAndCall(o.value, None)
                          /\ compressLog' = compressLog
    /\ UNCHANGED <<apiKey, evars, gargs, model, targetRatio, guidanceDescription, processedRef>>

\* line 227 completes; lines 230-313
CompressRefDone ==
    /\ UNCHANGED <<exhausted, uivars, pvars>>
    /\ gpc = "compressRef"
    /\ \E o \in CompressOutcomes(referenceImage[1]) :
         IF ~o.ok
           THEN /\ gpc' = "failed"
                /\ gresult' = Fail(o.value)
                /\ UNCHANGED <<processedRef, parts, requests, rvars>>
           ELSE /\ processedRef' = Some(o.value)
                /\ gresult' = gresult
                /\ ComposeAndCall(processedSource, Some(o.value))
    /\ UNCHANGED <<apiKey, compressLog, evars, gargs, model, targetRatio,
                   guidanceDescription, processedSource>>

\* the run of retryOperation ended by throwing after `retries` invocations
\* that all failed with a rate-limit-classified error
RateLimitExhausted ==
    /\ rpc = "threw"
    /\ Len(outcomes) = retries
    /\ \A k \in 1..Len(outcomes) : ~outcomes[k].ok /\ isRateLimit(outcomes[k].value)

\* lines 333-360: the edit call settled
EditOutcome(settled, value) ==
    IF settled = "returned"
      THEN IF InterpretEdit(value).ok THEN InterpretEdit(value)
           ELSE Fail(WrapEditError(InterpretEdit(value).error))
      ELSE Fail(WrapEditError(value))

EditFinish ==
    /\ exhausted' = RateLimitExhausted
    /\ UNCHANGED <<uivars, pvars>>
    /\ gpc = "calling"
    /\ rop = "edit"
    /\ rpc \in {"returned", "threw"}
    /\ gresult' = EditOutcome(rpc, rresult[1])
    /\ gpc' = IF EditOutcome(rpc, rresult[1]).ok THEN "succeeded" ELSE "failed"
    /\ RetryEnd
    /\ UNCHANGED <<envvars, evars, gargs, model, targetRatio, guidanceDescription,
                   processedSource, processedRef, parts>>

\* lines 198-204: the text-to-image call settled
ImagenOutcome(settled, value) ==
    IF settled = "returned"
      THEN IF InterpretImagen(value).ok THEN InterpretImagen(value)
           ELSE Fail(WrapImagenError(InterpretImagen(value).error))
      ELSE Fail(WrapImagenError(value))

ImagenFinish ==
    /\ exhausted' = RateLimitExhausted
    /\ UNCHANGED <<uivars, pvars>>
    /\ gpc = "imagen"
    /\ rop = "imagen"
    /\ rpc \in {"returned", "threw"}
    /\ gresult' = ImagenOutcome(rpc, rresult[1])
    /\ gpc' = IF ImagenOutcome(rpc, rresult[1]).ok THEN "succeeded" ELSE "failed"
    /\ RetryEnd
    /\ UNCHANGED <<envvars, evars, gargs, model, targetRatio, guidanceDescription,
                   processedSource, processedRef, parts>>

\* ---------------------------------------------------------- specifications
CoreIdle ==
    /\ RetryIdle
    /\ requests = <<>> /\ compressLog = <<>>
    /\ epc = "idle" /\ eimage = NoAsset /\ emode = Undefined /\ ecustom = None
    /\ promptText = NoLine /\ eresult = NoResult
    /\ gpc = "idle" /\ sourceImage = NoAsset /\ referenceImage = None /\ config = NoConfig
    /\ model = Undefined /\ targetRatio = SQUARE /\ guidanceDescription = <<>>
    /\ processedSource = NoProcessed /\ processedRef = None /\ parts = <<>>
    /\ gresult = NoResult
    /\ exhausted = FALSE

\* part_001 lines 8-24: the useState initial values
UiInitialInputs ==
    /\ uiSourceImage = None /\ refImage = None /\ useRefImage = FALSE
    /\ uiPrompt = <<>> /\ uiAspectRatio = SAME_AS_SOURCE /\ refMode = POSE
    /\ customRefPrompt = <<>> /\ selectedModel = GEMINI_2_5

UiInitialOutputs ==
    /\ generatedImage = None /\ uiHistory = <<>> /\ isGenerating = FALSE /\ uiError = None
    /\ isExtracting = FALSE /\ extractedText = None /\ extractArgs = None
    /\ inFlight = 0 /\ generations = 0 /\ formActions = 0

\* no stand-alone call of an image helper
PureIdle ==
    /\ imgWidth = 1 /\ imgHeight = 1 /\ imgMimeType = "image/png"
    /\ closest = None /\ compressed = None

Idle == CoreIdle /\ UiInitialInputs /\ UiInitialOutputs /\ PureIdle

\* one call of generateFutureImage, with or without the credential
Init == Idle /\ apiKey \in BOOLEAN

Next ==
    \/ Generate
    \/ ExtractCompressDone
    \/ ExtractFinish
    \/ GuidanceDone
    \/ CompressSourceDone
    \/ CompressRefDone
    \/ EditFinish
    \/ ImagenFinish
    \/ OperationResolves
    \/ OperationRejects
    \/ WaitElapses

Spec == Init /\ [][Next]_vars

\* one call of retryOperation on an arbitrary operation
RetryDelays == {DefaultInitialDelay, 500}

RetryInit == Idle /\ apiKey = TRUE

RetryCall ==
    /\ UNCHANGED <<exhausted, uivars, pvars>>
    /\ rpc = "idle"
    /\ \E n \in 0..MaxRetries, d \in RetryDelays : RetryBegin("op", n, d)
    /\ UNCHANGED <<envvars, evars, gvars>>

RetryNext == RetryCall \/ OperationResolves \/ OperationRejects \/ WaitElapses

SpecRetry == RetryInit /\ [][RetryNext]_vars


\* --------------------------------------------------------------------- App
\* the values the inputs of the form take
UiSources == {None, Some(Asset("src", "image/png", Some(800), Some(600), TRUE))}
UiRefs == {None, Some(Asset("ref", "image/webp", Some(640), Some(480), TRUE))}
UiPrompts == {<<" ", " ">>, <<"a", "d", "d">>}
UiRatios == {SAME_AS_SOURCE, WIDE_LANDSCAPE}
UiModes == {POSE, CUSTOM}
UiCustomPrompts == {<<" ">>, <<"h", "a", "t">>}
UiModels == {GEMINI_2_5, IMAGEN_4}

MsgNoSource == <<"Please upload a source image.">>
MsgNoPrompt == <<"Please enter a prompt or use a reference image.">>
MsgNoReference == <<"Reference mode is on but no reference image provided.">>
MsgNoFeature == <<"Please enter what you want to copy from the reference image.">>
MsgServerBusy == <<"Server is busy (Rate Limit). Please wait a moment and try again.">>
MsgAccessDenied(modelId) ==
    <<"Access denied for model", modelId,
      "Your API key might not have access to this preview model yet.">>

\* part_001 lines 26-49 with the feature text tested without trim()
ValidationErrorNoTrim ==
    IF uiSourceImage = None /\ selectedModel # IMAGEN_4 THEN Some(MsgNoSource)
    ELSE IF Trim(uiPrompt) = <<>> /\ ~useRefImage THEN Some(MsgNoPrompt)
    ELSE IF useRefImage /\ refImage = None THEN Some(MsgNoReference)
    ELSE IF useRefImage /\ refMode = CUSTOM /\ customRefPrompt = <<>> THEN Some(MsgNoFeature)
    ELSE None

\* part_001 lines 26-49: the message of the first check that fails, if any
ValidationError ==
    IF uiSourceImage = None /\ selectedModel # IMAGEN_4 THEN Some(MsgNoSource)
    ELSE IF Trim(uiPrompt) = <<>> /\ ~useRefImage THEN Some(MsgNoPrompt)
    ELSE IF useRefImage /\ refImage = None THEN Some(MsgNoReference)
    ELSE IF useRefImage /\ refMode = CUSTOM /\ Trim(customRefPrompt) = <<>> THEN Some(MsgNoFeature)
    ELSE None

\* part_001 lines 56-66: the arguments handleGenerate passes
GenerateArgs ==
    [sourceImage |-> IF uiSourceImage # None THEN uiSourceImage[1]
                     ELSE Asset("", "image/png", None, None, FALSE),
     referenceImage |-> IF useRefImage THEN refImage ELSE None,
     config |-> [prompt |-> uiPrompt,
                 aspectRatio |-> uiAspectRatio,
                 referenceMode |-> IF useRefImage THEN refMode ELSE Undefined,
                 customReferencePrompt |->
                     IF useRefImage /\ refMode = CUSTOM THEN Some(customRefPrompt) ELSE None,
                 modelId |-> selectedModel]]

\* part_001 lines 70-75: the message shown for a thrown error
UiMessage(e, modelId) ==
    LET msg == IF e.message # <<>> THEN e.message
               ELSE <<"An", "error", "occurred", "during", "generation.">>
    IN  IF Includes(msg, "429") \/ Includes(msg, "quota") \/ Includes(msg, "RESOURCE_EXHAUSTED")
          THEN MsgServerBusy
        ELSE IF Includes(msg, "403") \/ Includes(msg, "permission")
          THEN MsgAccessDenied(modelId)
        ELSE msg

\* part_001 line 379: the Generate button is disabled
GenerateDisabledNever == FALSE

GenerateDisabled == isGenerating

\* part_001 lines 26-66: a click on Generate, up to the await of line 56
handleGenerate ==
    /\ ~GenerateDisabled
    /\ generations < MaxGenerations
    /\ generations' = generations + 1
    /\ IF ValidationError # None
         THEN /\ uiError' = ValidationError
              /\ UNCHANGED <<generatedImage, isGenerating, inFlight>>
              /\ UNCHANGED <<rvars, envvars, evars, gvars, exhausted>>
         ELSE /\ uiError' = None
              /\ isGenerating' = TRUE
              /\ generatedImage' = None
              /\ inFlight' = inFlight + 1
              /\ GenerateBegin(GenerateArgs)
    /\ UNCHANGED <<uiInputs, uiHistory, xvars, formActions, pvars>>

\* part_001 lines 67-76 without the finally of lines 77-79
handleGenerateSettledNoFinally ==
    /\ inFlight > 0
    /\ gpc \in {"succeeded", "failed"}
    /\ IF gresult.ok
         THEN /\ generatedImage' = Some(gresult.value)
              /\ uiHistory' = <<gresult.value>> \o uiHistory
              /\ uiError' = uiError
         ELSE /\ uiError' = Some(UiMessage(gresult.error, config.modelId))
              /\ UNCHANGED <<generatedImage, uiHistory>>
    /\ isGenerating' = isGenerating
    /\ inFlight' = inFlight - 1
    /\ RetryEnd
    /\ requests' = <<>> /\ compressLog' = <<>>
    /\ epc' = "idle" /\ eimage' = NoAsset /\ emode' = Undefined /\ ecustom' = None
    /\ promptText' = NoLine /\ eresult' = NoResult
    /\ gpc' = "idle" /\ sourceImage' = NoAsset /\ referenceImage' = None /\ config' = NoConfig
    /\ model' = Undefined /\ targetRatio' = SQUARE /\ guidanceDescription' = <<>>
    /\ processedSource' = NoProcessed /\ processedRef' = None /\ parts' = <<>>
    /\ gresult' = NoResult
    /\ exhausted' = FALSE
    /\ UNCHANGED <<apiKey, uiInputs, xvars, generations, formActions, pvars>>

\* part_001 lines 67-79: the awaited call settled.  The locals of the call
\* are gone: the orchestration is idle again.
handleGenerateSettled ==
    /\ inFlight > 0
    /\ gpc \in {"succeeded", "failed"}
    /\ IF gresult.ok
         THEN /\ generatedImage' = Some(gresult.value)
              /\ uiHistory' = <<gresult.value>> \o uiHistory
              /\ uiError' = uiError
         ELSE /\ uiError' = Some(UiMessage(gresult.error, config.modelId))
              /\ UNCHANGED <<generatedImage, uiHistory>>
    /\ isGenerating' = FALSE
    /\ inFlight' = inFlight - 1
    /\ RetryEnd
    /\ requests' = <<>> /\ compressLog' = <<>>
    /\ epc' = "idle" /\ eimage' = NoAsset /\ emode' = Undefined /\ ecustom' = None
    /\ promptText' = NoLine /\ eresult' = NoResult
    /\ gpc' = "idle" /\ sourceImage' = NoAsset /\ referenceImage' = None /\ config' = NoConfig
    /\ model' = Undefined /\ targetRatio' = SQUARE /\ guidanceDescription' = <<>>
    /\ processedSource' = NoProcessed /\ processedRef' = None /\ parts' = <<>>
    /\ gresult' = NoResult
    /\ exhausted' = FALSE
    /\ UNCHANGED <<apiKey, uiInputs, xvars, generations, formActions, pvars>>

\* what every change of an input leaves alone
InputChange ==
    /\ formActions < MaxFormActions
    /\ formActions' = formActions + 1
    /\ UNCHANGED <<rvars, envvars, evars, gvars, exhausted, uiOutputs, inFlight, generations>>
    /\ UNCHANGED <<isExtracting, extractArgs, pvars>>

\* part_001 lines 221-222: onImageUpload, onClear of the source zone
setSourceImage ==
    /\ extractedText' = extractedText
    /\ \E v \in UiSources : v # uiSourceImage /\ uiSourceImage' = v
    /\ InputChange
    /\ UNCHANGED <<refImage, useRefImage, uiPrompt, uiAspectRatio, refMode, customRefPrompt, selectedModel>>

\* part_001 lines 248-254: onImageUpload, onClear of the reference zone, which
\* is rendered when useRefImage
RefImageZone ==
    /\ useRefImage
    /\ extractedText' = None
    /\ \E v \in UiRefs : v # refImage /\ refImage' = v
    /\ UNCHANGED <<uiSourceImage, useRefImage, uiPrompt, uiAspectRatio, refMode, customRefPrompt, selectedModel>>

setRefImage == RefImageZone /\ InputChange

\* part_001 line 241
UseRefToggle ==
    /\ extractedText' = extractedText
    /\ useRefImage' = ~useRefImage
    /\ UNCHANGED <<uiSourceImage, refImage, uiPrompt, uiAspectRatio, refMode, customRefPrompt, selectedModel>>

setUseRefImage == UseRefToggle /\ InputChange

\* part_001 line 349
setPrompt ==
    /\ extractedText' = extractedText
    /\ \E v \in UiPrompts : v # uiPrompt /\ uiPrompt' = v
    /\ InputChange
    /\ UNCHANGED <<uiSourceImage, refImage, useRefImage, uiAspectRatio, refMode, customRefPrompt, selectedModel>>

\* part_001 line 361
setAspectRatio ==
    /\ extractedText' = extractedText
    /\ \E v \in UiRatios : v # uiAspectRatio /\ uiAspectRatio' = v
    /\ InputChange
    /\ UNCHANGED <<uiSourceImage, refImage, useRefImage, uiPrompt, refMode, customRefPrompt, selectedModel>>

\* part_001 lines 248 and 263-266
RefModeSelect ==
    /\ useRefImage
    /\ extractedText' = None
    /\ \E v \in UiModes : v # refMode /\ refMode' = v
    /\ UNCHANGED <<uiSourceImage, refImage, useRefImage, uiPrompt, uiAspectRatio, customRefPrompt, selectedModel>>

setRefMode == RefModeSelect /\ InputChange

\* part_001 lines 248, 278 and 283: the input is rendered in mode Custom
CustomRefInput ==
    /\ useRefImage /\ refMode = CUSTOM
    /\ extractedText' = extractedText
    /\ \E v \in UiCustomPrompts : v # customRefPrompt /\ customRefPrompt' = v
    /\ UNCHANGED <<uiSourceImage, refImage, useRefImage, uiPrompt, uiAspectRatio, refMode, selectedModel>>

setCustomRefPrompt == CustomRefInput /\ InputChange

\* part_001 line 183
setSelectedModel ==
    /\ extractedText' = extractedText
    /\ \E v \in UiModels : v # selectedModel /\ selectedModel' = v
    /\ InputChange
    /\ UNCHANGED <<uiSourceImage, refImage, useRefImage, uiPrompt, uiAspectRatio, refMode, customRefPrompt>>

\* what a call extractFeatureDescription(image, mode, customPrompt) can end
\* in (lines 88-145): it throws without the credential or when compressImage
\* rejects; otherwise it returns the text of the analysis response, or ""
\* when the analysis call failed
ExtractSettlements(image) ==
    IF CredentialMissing(apiKey) THEN {Fail(ErrApiKey)}
    ELSE {Fail(o.value) : o \in {c \in CompressOutcomes(image) : ~c.ok}}
         \cup (IF \E c \in CompressOutcomes(image) : c.ok
                 THEN {Ok(ResponseText(r)) : r \in AnalysisResponses} \cup {Ok(<<>>)}
                 ELSE {})

MsgSpecifyFeature == <<"Please specify what feature to extract first.">>
MsgRateLimitHit == <<"Rate limit hit. Please wait.">>

\* part_001 lines 95-102: the message shown when extraction gave nothing
ExtractUiMessage(settlement) ==
    LET thrown == IF settlement.ok THEN <<"Could", "not", "analyze", "image.">>
                  ELSE settlement.error.message
        msg == IF thrown # <<>> THEN thrown ELSE <<"Failed", "to", "analyze", "image.">>
    IN  IF Includes(msg, "429") THEN MsgRateLimitHit ELSE msg

\* part_001 lines 248, 297-301: the Extract button is rendered and enabled
ExtractAvailable ==
    useRefImage /\ refImage # None /\ ~TruthyStr(extractedText) /\ ~isExtracting

\* part_001 lines 82-94: a click on Extract, up to the await of line 94
ExtractClick ==
    /\ ExtractAvailable
    /\ IF refImage = None
         THEN UNCHANGED <<isExtracting, extractArgs, uiError>>
         ELSE IF refMode = CUSTOM /\ Trim(customRefPrompt) = <<>>
         THEN /\ uiError' = Some(MsgSpecifyFeature)
              /\ UNCHANGED <<isExtracting, extractArgs>>
         ELSE /\ isExtracting' = TRUE
              /\ uiError' = None
              /\ extractArgs' = Some([image |-> refImage[1], mode |-> refMode,
                                      customPrompt |-> customRefPrompt])
    /\ UNCHANGED <<rvars, envvars, evars, gvars, exhausted, uiInputs, extractedText,
                   generatedImage, uiHistory, isGenerating, inFlight, generations, pvars>>

\* a click on Extract in a session of bounded length
handleExtractFeature ==
    /\ ExtractClick
    /\ formActions < MaxFormActions
    /\ formActions' = formActions + 1

\* part_001 lines 94-105: the awaited extraction settled
handleExtractFeatureSettled ==
    /\ isExtracting
    /\ \E o \in ExtractSettlements(extractArgs[1].image) :
         IF o.ok /\ o.value # <<>>
           THEN /\ extractedText' = Some(o.value)
                /\ uiError' = uiError
           ELSE /\ uiError' = Some(ExtractUiMessage(o))
                /\ extractedText' = extractedText
    /\ isExtracting' = FALSE
    /\ extractArgs' = None
    /\ UNCHANGED <<rvars, envvars, evars, gvars, exhausted, uiInputs, formActions,
                   generatedImage, uiHistory, isGenerating, inFlight, generations, pvars>>

\* a session of the App with the credential configured: the form filled in
\* any way at the initial aspect ratio, nothing generated yet
UiInit ==
    /\ CoreIdle
    /\ apiKey = TRUE
    /\ uiSourceImage \in UiSources /\ refImage \in UiRefs /\ useRefImage \in BOOLEAN
    /\ uiPrompt \in UiPrompts /\ uiAspectRatio = SAME_AS_SOURCE /\ refMode \in UiModes
    /\ customRefPrompt \in UiCustomPrompts /\ selectedModel \in UiModels
    /\ UiInitialOutputs
    /\ PureIdle

UiNext ==
    \/ handleGenerate
    \/ handleGenerateSettled
    \/ setSourceImage
    \/ setRefImage
    \/ setUseRefImage
    \/ setPrompt
    \/ setAspectRatio
    \/ setRefMode
    \/ setCustomRefPrompt
    \/ setSelectedModel
    \/ handleExtractFeature
    \/ handleExtractFeatureSettled
    \/ ExtractCompressDone
    \/ ExtractFinish
    \/ GuidanceDone
    \/ CompressSourceDone
    \/ CompressRefDone
    \/ EditFinish
    \/ ImagenFinish
    \/ OperationResolves
    \/ OperationRejects
    \/ WaitElapses

SpecUI == UiInit /\ [][UiNext]_vars

\* ------------------------------------------------------ the reference panel
\* part_001 lines 130-139: To Ref in the action bar of the generated image
\* (rendered when generatedImage, line 438)
moveToReference ==
    /\ generatedImage # None
    /\ refImage' = Some(Asset(generatedImage[1], "image/png", None, None, TRUE))
    /\ useRefImage' = TRUE
    /\ generatedImage' = None
    /\ UNCHANGED <<uiSourceImage, uiPrompt, uiAspectRatio, refMode, customRefPrompt, selectedModel>>
    /\ UNCHANGED <<uiHistory, isGenerating, uiError, xvars, inFlight, generations, formActions>>
    /\ UNCHANGED <<rvars, envvars, evars, gvars, exhausted, pvars>>

\* part_001 line 319: the x next to the extracted text (rendered when
\* useRefImage, refImage and extractedText)
clearExtractedText ==
    /\ useRefImage /\ refImage # None /\ TruthyStr(extractedText)
    /\ extractedText' = None
    /\ UNCHANGED <<isExtracting, extractArgs, uiInputs, uiOutputs, inFlight, generations, formActions>>
    /\ UNCHANGED <<rvars, envvars, evars, gvars, exhausted, pvars>>

\* what a change of an input leaves alone in a session of any length
FreeInputChange ==
    /\ UNCHANGED <<rvars, envvars, evars, gvars, exhausted, uiOutputs, inFlight, generations>>
    /\ UNCHANGED <<isExtracting, extractArgs, formActions, pvars>>

\* a session on the reference panel, of any length, with the credential
\* configured: the panel filled in any way, and possibly an image generated
\* before and still shown
PanelInit ==
    /\ CoreIdle
    /\ apiKey = TRUE
    /\ uiSourceImage = None /\ uiPrompt = <<>> /\ uiAspectRatio = SAME_AS_SOURCE
    /\ selectedModel = GEMINI_2_5
    /\ refImage \in UiRefs /\ useRefImage \in BOOLEAN
    /\ refMode \in UiModes /\ customRefPrompt \in UiCustomPrompts
    /\ \/ generatedImage = None /\ uiHistory = <<>> /\ generations = 0
       \/ generatedImage = Some("img1") /\ uiHistory = <<"img1">> /\ generations = 1
    /\ isGenerating = FALSE /\ uiError = None
    /\ isExtracting = FALSE /\ extractedText = None /\ extractArgs = None
    /\ inFlight = 0 /\ formActions = 0
    /\ PureIdle

PanelRefImage == RefImageZone /\ FreeInputChange
PanelUseRef == UseRefToggle /\ FreeInputChange
PanelRefMode == RefModeSelect /\ FreeInputChange
PanelCustomRef == CustomRefInput /\ FreeInputChange
PanelExtract == ExtractClick /\ formActions' = formActions

PanelNext ==
    \/ PanelRefImage
    \/ PanelUseRef
    \/ PanelRefMode
    \/ PanelCustomRef
    \/ PanelExtract
    \/ handleExtractFeatureSettled
    \/ clearExtractedText
    \/ moveToReference

SpecPanel == PanelInit /\ [][PanelNext]_vars


\* ------------------------------------------- the image helpers, stand-alone
\* the dimensions tried: the small ones, the ties of the supported ratios
\* (233:200, 31:20), common sizes, and the neighbourhood of MAX_SIZE and of
\* its double
ProbeDims == (1..MaxSmallDim) \cup {200, 233, 600, 800, 1023, 1024, 1025, 1080,
                                    1536, 1920, 2047, 2048, 2049, 4096}

ProbeMimeTypes == {"image/png", "image/webp", "image/jpeg"}

PureInit ==
    /\ CoreIdle /\ apiKey = TRUE
    /\ UiInitialInputs /\ UiInitialOutputs
    /\ imgWidth \in ProbeDims /\ imgHeight \in ProbeDims
    /\ imgMimeType \in ProbeMimeTypes
    /\ closest = None /\ compressed = None

\* getClosestSupportedRatio(imgWidth, imgHeight)
ResolveClosest ==
    /\ closest = None
    /\ closest' = Some(getClosestSupportedRatio(imgWidth, imgHeight))
    /\ UNCHANGED <<rvars, envvars, evars, gvars, exhausted, uivars>>
    /\ UNCHANGED <<imgWidth, imgHeight, imgMimeType, compressed>>

\* compressImage(data, imgMimeType) on an image that decodes to
\* imgWidth x imgHeight: lines 24-57
CompressImage ==
    /\ compressed = None
    /\ \E o \in CompressOutcomes(Asset("probe", imgMimeType, Some(imgWidth), Some(imgHeight), TRUE)) :
         compressed' =
            Some(IF o.ok
                   THEN [ok |-> TRUE, mimeType |-> o.value.mimeType,
                         width |-> CompressedSize(imgWidth, imgHeight).width,
                         height |-> CompressedSize(imgWidth, imgHeight).height]
                   ELSE [ok |-> FALSE, mimeType |-> "", width |-> 0, height |-> 0])
    /\ UNCHANGED <<rvars, envvars, evars, gvars, exhausted, uivars>>
    /\ UNCHANGED <<imgWidth, imgHeight, imgMimeType, closest>>

PureNext == ResolveClosest \/ CompressImage

SpecPure == PureInit /\ [][PureNext]_vars

\* ------------------------------------------------ one session, with progress
\* Every step that is not the user's: a decode (onload / onerror) or a remote
\* call completing, a backoff timer firing, a promise continuation running.
Completion ==
    \/ OperationResolves \/ OperationRejects \/ WaitElapses
    \/ ExtractCompressDone \/ ExtractFinish
    \/ GuidanceDone \/ CompressSourceDone \/ CompressRefDone
    \/ EditFinish \/ ImagenFinish
    \/ handleGenerateSettled

LiveNext == handleGenerate \/ Completion

\* the browser runs every pending continuation and timer; every decode and
\* every remote call is assumed to complete
SpecLive == UiInit /\ [][LiveNext]_vars /\ WF_vars(Completion)

\* ------------------------------------------------- the stage and the history
\* what a click on the stage or in the history leaves alone
StageClick ==
    /\ UNCHANGED <<isGenerating, uiError, xvars, inFlight, generations, formActions>>
    /\ UNCHANGED <<rvars, envvars, evars, gvars, exhausted, pvars>>

\* part_001 line 505: a click on a thumbnail of the history (rendered when
\* history.length > 0, line 488)
viewHistoryItem ==
    /\ \E k \in 1..Len(uiHistory) : generatedImage' = Some(uiHistory[k])
    /\ UNCHANGED <<uiInputs, uiHistory>>
    /\ StageClick

\* part_001 line 442: Close Image (rendered when generatedImage, line 438)
closeImage ==
    /\ generatedImage # None
    /\ generatedImage' = None
    /\ UNCHANGED <<uiInputs, uiHistory>>
    /\ StageClick

\* part_001 lines 120-128 with the dimensions of the former source kept
moveToSourceKeepsSize ==
    /\ generatedImage # None
    /\ uiSourceImage' = Some(Asset(generatedImage[1], "image/png",
                                   IF uiSourceImage = None THEN None ELSE uiSourceImage[1].width,
                                   IF uiSourceImage = None THEN None ELSE uiSourceImage[1].height,
                                   TRUE))
    /\ generatedImage' = None
    /\ UNCHANGED <<refImage, useRefImage, uiPrompt, uiAspectRatio, refMode, customRefPrompt,
                   selectedModel, uiHistory>>
    /\ StageClick

\* part_001 lines 120-128: To Source in the action bar of the generated image
moveToSource ==
    /\ generatedImage # None
    /\ uiSourceImage' = Some(Asset(generatedImage[1], "image/png", None, None, TRUE))
    /\ generatedImage' = None
    /\ UNCHANGED <<refImage, useRefImage, uiPrompt, uiAspectRatio, refMode, customRefPrompt,
                   selectedModel, uiHistory>>
    /\ StageClick

\* part_001 lines 148-150: Clear All
clearHistory ==
    /\ uiHistory # <<>>
    /\ uiHistory' = <<>>
    /\ UNCHANGED <<uiInputs, generatedImage>>
    /\ StageClick

\* part_001 lines 152-155: the x of a thumbnail
deleteHistoryItem ==
    /\ \E k \in 1..Len(uiHistory) :
         uiHistory' = SubSeq(uiHistory, 1, k - 1) \o SubSeq(uiHistory, k + 1, Len(uiHistory))
    /\ UNCHANGED <<uiInputs, generatedImage>>
    /\ StageClick

\* a session of any length with the credential configured, a source image
\* and a prompt, and no reference image yet
GalleryInit ==
    /\ CoreIdle
    /\ apiKey = TRUE
    /\ uiSourceImage \in UiSources \ {None} /\ refImage = None /\ useRefImage = FALSE
    /\ uiPrompt = <<"a", "d", "d">> /\ uiAspectRatio \in UiRatios /\ refMode = POSE
    /\ customRefPrompt = <<>> /\ selectedModel \in UiModels
    /\ UiInitialOutputs
    /\ PureIdle

GalleryNext ==
    \/ LiveNext
    \/ viewHistoryItem
    \/ closeImage
    \/ moveToSource
    \/ moveToReference
    \/ clearHistory
    \/ deleteHistoryItem

SpecGallery == GalleryInit /\ [][GalleryNext]_vars

\* ================================================================== claims
\* the k-th invocation of the operation failed with a rate-limit-classified error
RateLimited(k) == k <= Len(outcomes) /\ ~outcomes[k].ok /\ isRateLimit(outcomes[k].value)

\* C1: an operation that fails twice with a rate-limit-classified error and
\* then succeeds: retryOperation (with at least the default 3 attempts) does
\* not give up after the two failures, returns the third invocation's result,
\* invokes the operation exactly 3 times, and has waited initialDelay and
\* then 2*initialDelay.
C1_ThirdAttemptSucceeds ==
    (retries >= DefaultRetries /\ RateLimited(1) /\ RateLimited(2)) =>
        /\ rpc \in {"waiting", "calling", "returned", "threw"}
        /\ Len(outcomes) = 2 => /\ rpc \in {"waiting", "calling"}
                                /\ rresult = None
        /\ (Len(outcomes) >= 3 /\ outcomes[3].ok) =>
              /\ rpc = "returned"
              /\ rresult = Some(outcomes[3].value)
              /\ Len(outcomes) = 3
              /\ waits = <<initialDelay, 2 * initialDelay>>

C1_Witness ==
    /\ rop = "op" /\ retries = DefaultRetries /\ initialDelay = DefaultInitialDelay
    /\ RateLimited(1) /\ RateLimited(2)
    /\ Len(outcomes) = 3 /\ outcomes[3].ok
    /\ rpc = "returned"
    /\ waits = <<2000, 4000>>

\* the claim's reading of "not rate-limit-classified", on the text line 74
\* inspects (the message, or the serialized error when it has no message)
NotRateLimitClassified(e) ==
    /\ \A k \in 1..Len(ErrorMsg(e)) : ErrorMsg(e)[k] \notin {"429", "quota", "RESOURCE_EXHAUSTED"}
    /\ e.status # 429
    /\ e.code # 429

\* C2: when the first invocation fails with an error that is not
\* rate-limit-classified, retryOperation throws that same error after exactly
\* one invocation and no wait, whatever retries is.
C2_NonRateLimitFailsAtOnce ==
    (Len(outcomes) >= 1 /\ ~outcomes[1].ok /\ NotRateLimitClassified(outcomes[1].value)) =>
        /\ rpc = "threw"
        /\ rresult = Some(outcomes[1].value)
        /\ Len(outcomes) = 1
        /\ waits = <<>>

C2_Witness ==
    /\ rop = "op" /\ retries >= DefaultRetries
    /\ Len(outcomes) = 1 /\ ~outcomes[1].ok /\ NotRateLimitClassified(outcomes[1].value)
    /\ rpc = "threw"

\* C3: the operation is invoked at most retries times; a failure of the last
\* allowed invocation is thrown at once, without a wait; and when every
\* invocation failed with a rate-limit-classified error, the error thrown is
\* the one of the last invocation and the waits number one less than the
\* invocations.
C3_AtMostMaxAttemptsLastError ==
    /\ Len(outcomes) <= retries
    /\ (rpc # "idle" /\ Len(outcomes) = retries /\ retries > 0 /\ ~outcomes[retries].ok) =>
          rpc = "threw"
    /\ (rpc = "threw" /\ outcomes # <<>> /\ \A k \in 1..Len(outcomes) : RateLimited(k)) =>
          /\ Len(outcomes) = retries
          /\ rresult = Some(outcomes[Len(outcomes)].value)
          /\ Len(waits) = Len(outcomes) - 1

C3_Witness ==
    /\ rop = "op" /\ rpc = "threw" /\ retries = DefaultRetries
    /\ Len(outcomes) = 3 /\ \A k \in 1..3 : RateLimited(k)
    /\ outcomes[1].value # outcomes[3].value
    /\ outcomes[2].value # outcomes[3].value

\* ---- generateFutureImage
Started == gpc # "idle"

Finished == gpc \in {"succeeded", "failed"}

OnEditingPath == Started /\ apiKey /\ config.modelId # IMAGEN_4

WithReference == referenceImage # None /\ config.referenceMode # Undefined

RequestsOfKind(kind) == {k \in 1..Len(requests) : requests[k].kind = kind}

\* the instruction text of an edit or analysis request: its last part
TextOf(request) == request.parts[Len(request.parts)].text

HasLine(text, t) == \E k \in 1..Len(text) : text[k].tag = t

GuidanceTag == "VISUAL DESCRIPTION OF REFERENCE (for guidance):"

\* C4: no text-to-image request and no edit request carries SAME_AS_SOURCE as
\* its aspect ratio; the ratio sent is one of 1:1, 3:4, 4:3, 16:9, 9:16.
C4_NoSameAsSourceOutbound ==
    \A k \in 1..Len(requests) :
        requests[k].kind \in {"edit", "imagen"} =>
            /\ requests[k].aspectRatio # "SAME_AS_SOURCE"
            /\ requests[k].aspectRatio \in {"1:1", "3:4", "4:3", "16:9", "9:16"}

C4_Witness ==
    /\ config.aspectRatio = SAME_AS_SOURCE
    /\ sourceImage.width # None /\ sourceImage.height = None
    /\ RequestsOfKind("edit") # {}

\* C5: the model id alone selects the path.  With the text-to-image model
\* only text-to-image requests are issued, nothing is compressed and no
\* extraction runs; with any other model id, or none, only analysis and edit
\* requests are issued; and a call that got past the credential check has
\* entered its path.
C5_ExactlyOnePath ==
    Started =>
        IF config.modelId = IMAGEN_4
          THEN /\ \A k \in 1..Len(requests) : requests[k].kind = "imagen"
               /\ compressLog = <<>>
               /\ epc = "idle"
               /\ gpc \in {"imagen", "succeeded", "failed"}
               /\ apiKey => requests # <<>>
          ELSE /\ \A k \in 1..Len(requests) : requests[k].kind \in {"analyze", "edit"}
               /\ gpc # "imagen"
               /\ apiKey => compressLog # <<>>

C5_Witness ==
    /\ Finished /\ apiKey
    /\ config.modelId = Undefined
    /\ referenceImage = None /\ config.referenceMode = DRESS
    /\ RequestsOfKind("edit") # {}

\* C6: without the credential generate fails with the configuration error,
\* and nothing was compressed, requested, retried or waited for.
C6_MissingCredentialFailsFirst ==
    (~apiKey /\ Started) =>
        /\ gpc = "failed"
        /\ ~gresult.ok /\ gresult.error = ErrApiKey
        /\ requests = <<>>
        /\ compressLog = <<>>
        /\ rpc = "idle" /\ outcomes = <<>> /\ waits = <<>>
        /\ epc = "idle"

C6_Witness ==
    /\ ~apiKey /\ gpc = "failed"
    /\ referenceImage # None /\ config.referenceMode # Undefined

\* C7: with the credential present, extractFeatureDescription never throws:
\* every failure ends in the empty string being returned.
C7_ExtractNeverThrows ==
    apiKey => epc # "threw"

\* extraction ended in a failure: it threw, or it returned "" from its catch block
ExtractionFailed ==
    \/ epc = "threw"
    \/ epc = "returned" /\ eresult.error # Err(<<>>, 0, 0, <<>>)

\* C8: on an editing model with a reference image and mode, a failed
\* extraction does not fail generate: generate goes on to compress the
\* source, every edit request it then issues has no guidance block, the edit
\* call is issued whenever both compressions succeed, and a failure of
\* generate comes from the compressions or the edit call.
C8_ExtractionFailureNotPropagated ==
    (OnEditingPath /\ WithReference /\ ExtractionFailed) =>
        /\ gpc # "extracting" =>
              /\ Len(compressLog) >= 2
              /\ compressLog[1] = referenceImage[1].data
              /\ compressLog[2] = sourceImage.data
        /\ \A k \in RequestsOfKind("edit") : ~HasLine(TextOf(requests[k]), GuidanceTag)
        /\ (processedSource # NoProcessed /\ processedRef # None) => RequestsOfKind("edit") # {}
        /\ gpc = "failed" =>
              \/ gresult.error \in {ErrDecode, ErrCanvas} /\ RequestsOfKind("edit") = {}
              \/ RequestsOfKind("edit") # {}

C8_Witness ==
    /\ OnEditingPath /\ WithReference
    /\ epc = "threw"
    /\ gpc = "succeeded"
    /\ RequestsOfKind("edit") # {}

\* C9: the parts of every edit request are the compressed source image, then
\* the compressed reference image exactly when a reference image was given,
\* then one text part; the same on every attempt.
C9_PartOrder ==
    \A k \in RequestsOfKind("edit") :
        LET ps == requests[k].parts IN
        /\ Len(ps) = IF referenceImage # None THEN 3 ELSE 2
        /\ ps[1].inlineData = Some([data |-> <<"jpeg", sourceImage.data>>, mimeType |-> "image/jpeg"])
        /\ referenceImage # None =>
              ps[2].inlineData = Some([data |-> <<"jpeg", referenceImage[1].data>>, mimeType |-> "image/jpeg"])
        /\ ps[Len(ps)].inlineData = None
        /\ ps[Len(ps)].text # <<>>
        /\ \A j \in 1..(Len(ps) - 1) : ps[j].text = <<>>
        /\ \A j \in RequestsOfKind("edit") : requests[j].parts = ps

C9_Witness ==
    /\ referenceImage # None /\ config.referenceMode = Undefined
    /\ Cardinality(RequestsOfKind("edit")) = 3
    /\ Len(requests[1].parts) = 3

DressScenario ==
    /\ OnEditingPath
    /\ referenceImage # None /\ config.referenceMode = DRESS /\ config.prompt = <<>>

\* C10: reference mode Dress, a reference image, an empty prompt.  One
\* extraction runs, first: the reference is compressed before the source,
\* all analysis requests precede all edit requests, and an edit request is
\* issued only when extraction has settled.  The analysis requests carry the
\* dress instruction.  The edit request has the parts source, reference,
\* text, and its text holds the quoted description exactly when extraction
\* returned a non-empty text.
C10_DressScenario ==
    DressScenario =>
        /\ compressLog # <<>> /\ compressLog[1] = referenceImage[1].data
        /\ Len(compressLog) >= 2 => compressLog[2] = sourceImage.data
        /\ Cardinality(RequestsOfKind("analyze")) <= 3
        /\ \A a \in RequestsOfKind("analyze") :
              /\ TextOf(requests[a]) = <<Line("Analyze the clothing in this image.", <<>>)>>
              /\ requests[a].parts[1].inlineData[1].data = <<"jpeg", referenceImage[1].data>>
              /\ \A e \in RequestsOfKind("edit") : a < e
        /\ RequestsOfKind("edit") # {} => epc \in {"returned", "threw"} /\ rop # "analyze"
        /\ \A e \in RequestsOfKind("edit") :
              /\ Len(requests[e].parts) = 3
              /\ requests[e].parts[1].inlineData[1].data = <<"jpeg", sourceImage.data>>
              /\ requests[e].parts[2].inlineData[1].data = <<"jpeg", referenceImage[1].data>>
              /\ requests[e].parts[3].inlineData = None
              /\ HasLine(TextOf(requests[e]), "MODE: OUTFIT TRANSFER")
              /\ ~HasLine(TextOf(requests[e]), "USER INSTRUCTIONS:")
              /\ IF epc = "returned" /\ eresult.value # <<>>
                   THEN \E n \in 1..Len(TextOf(requests[e])) :
                           TextOf(requests[e])[n] = Line(GuidanceTag, eresult.value)
                   ELSE ~HasLine(TextOf(requests[e]), GuidanceTag)

C10_Witness ==
    /\ DressScenario
    /\ epc = "returned" /\ eresult.value = <<"s", "i", "l", "k">>
    /\ Cardinality(RequestsOfKind("analyze")) = 2
    /\ RequestsOfKind("edit") # {}

\* ---- end-to-end scenarios
\* the edit call has just resolved on its k-th invocation
EditReturned(k) == gpc = "calling" /\ rop = "edit" /\ rpc = "returned" /\ Len(outcomes) = k

\* the first candidate of an edit response finished with the normal stop
NormalFinish(response) ==
    response.candidates # <<>> /\ response.candidates[1].finishReason = "STOP"

\* the inline image parts of the first candidate, in part order
InlineParts(response) ==
    IF response.candidates = <<>> \/ response.candidates[1].parts = None THEN <<>>
    ELSE SelectSeq(response.candidates[1].parts[1], LAMBDA p : p.inlineData # None)

ScenarioA ==
    /\ Started /\ apiKey
    /\ sourceImage.width = Some(800) /\ sourceImage.height = Some(600)
    /\ referenceImage = None
    /\ config.prompt = <<"a", "d", "d">>
    /\ config.modelId = GEMINI_2_5
    /\ config.aspectRatio = SAME_AS_SOURCE

\* C11: source 800x600, no reference, a non-empty prompt, the fast editor
\* model, SAME_AS_SOURCE.  No analysis request is ever issued and every edit
\* request has the two parts image, text and the ratio 4:3; and when the
\* first invocation of the edit call resolves with a normal-finish candidate
\* holding an inline image, exactly one edit request has been issued, none is
\* issued afterwards, and generate returns that image's data.
C11_ScenarioA ==
    [][ScenarioA =>
          /\ RequestsOfKind("analyze") = {}
          /\ \A k \in RequestsOfKind("edit") :
                /\ Len(requests[k].parts) = 2
                /\ requests[k].parts[1].inlineData # None
                /\ requests[k].parts[2].inlineData = None /\ requests[k].parts[2].text # <<>>
                /\ requests[k].aspectRatio = "4:3"
          /\ (EditReturned(1) /\ NormalFinish(rresult[1]) /\ InlineParts(rresult[1]) # <<>>) =>
                /\ Len(requests) = 1 /\ requests[1].kind = "edit"
                /\ requests' = requests
                /\ gpc' = "succeeded"
                /\ gresult' = Ok(InlineParts(rresult[1])[1].inlineData[1])]_vars

C11_Witness ==
    /\ ScenarioA
    /\ gpc = "succeeded" /\ gresult = Ok("img1")
    /\ Len(requests) = 1 /\ requests[1].aspectRatio = "4:3"

\* the text-to-image call has just resolved
ImagenReturned == gpc = "imagen" /\ rop = "imagen" /\ rpc = "returned"

ScenarioC ==
    /\ Started /\ apiKey
    /\ config.modelId = IMAGEN_4
    /\ config.aspectRatio = SAME_AS_SOURCE
    /\ (~TruthyNum(sourceImage.width) \/ ~TruthyNum(sourceImage.height))

\* C12: the text-to-image model, SAME_AS_SOURCE, a source whose width or
\* height is unknown.  The ratio resolves to 1:1 and the call goes to the
\* text-to-image endpoint at once; every request is a text-to-image request
\* with ratio 1:1, nothing is compressed; a failure is a failure of that
\* endpoint, never of the resolution; and when the endpoint returns images,
\* generate returns the first of them.
C12_ScenarioC ==
    [][ScenarioC =>
          /\ targetRatio = SQUARE
          /\ requests # <<>>
          /\ \A k \in 1..Len(requests) :
                requests[k].kind = "imagen" /\ requests[k].aspectRatio = "1:1"
          /\ compressLog = <<>>
          /\ gpc = "failed" => SubSeq(gresult.error.message, 1, 3) = <<"Imagen", "Generation", "Failed:">>
          /\ (ImagenReturned /\ rresult[1].generatedImages # <<>>) =>
                /\ gpc' = "succeeded"
                /\ gresult' = Ok(rresult[1].generatedImages[1])
                /\ requests' = requests]_vars

C12_Witness ==
    /\ ScenarioC
    /\ sourceImage.width = Some(800) /\ sourceImage.height = None
    /\ gpc = "succeeded" /\ gresult = Ok("gen2")
    /\ Len(requests) = 2

\* ---- interpretation of the responses
\* the edit call has just resolved, on whichever invocation
EditResolved == gpc = "calling" /\ rop = "edit" /\ rpc = "returned"

\* the first candidate carries a finish reason other than the normal stop
AbnormalFinish(response) ==
    /\ response.candidates # <<>>
    /\ response.candidates[1].finishReason \notin {"", "STOP"}

FlaggedReasons == {"RECITATION", "IMAGE_RECITATION", "SAFETY"}

\* C13: when the edit call resolves with a first candidate whose finish
\* reason is not the normal stop, generate fails and returns no image data,
\* whether or not the candidate holds an inline image part, and issues no
\* further request.  For RECITATION, IMAGE_RECITATION and SAFETY the message
\* names the reason and ends by suggesting a different reference; for any
\* other reason it is the blocked-by-filter message with the reason.
C13_AbnormalFinishFails ==
    [][(EditResolved /\ AbnormalFinish(rresult[1])) =>
          LET reason == rresult[1].candidates[1].finishReason IN
          /\ gpc' = "failed"
          /\ ~gresult'.ok /\ gresult'.value = ""
          /\ requests' = requests
          /\ LET msg == gresult'.error.message IN
             IF reason \in FlaggedReasons
               THEN /\ Includes(msg, reason)
                    /\ Len(msg) >= 4
                    /\ SubSeq(msg, Len(msg) - 3, Len(msg)) = <<"Try", "a", "different", "reference.">>
               ELSE msg = <<"Generation", "blocked", "by", "filter:", reason>>]_vars

\* the SAFETY candidate of EditResponses holds an inline image part
C13_Witness ==
    /\ gpc = "failed"
    /\ Includes(gresult.error.message, "SAFETY")
    /\ referenceImage # None

\* C14: when the edit call resolves with a first candidate that finished
\* normally, generate returns the data of the first inline image part in part
\* order, whatever parts follow it, and fails with the text-instead-of-image
\* message when the candidate has no inline image part (text parts only, or
\* no parts); when the response has no candidate generate fails with the
\* no-response message.
C14_FirstInlineImage ==
    [][EditResolved =>
          /\ (NormalFinish(rresult[1]) /\ InlineParts(rresult[1]) # <<>>) =>
                /\ gpc' = "succeeded"
                /\ gresult' = Ok(InlineParts(rresult[1])[1].inlineData[1])
          /\ (NormalFinish(rresult[1]) /\ InlineParts(rresult[1]) = <<>>) =>
                /\ gpc' = "failed"
                /\ gresult'.error.message =
                      <<"The", "model", "generated", "a", "text", "response", "instead", "of", "an", "image.",
                        "Please", "try", "adjusting", "your", "prompt.">>
          /\ rresult[1].candidates = <<>> =>
                /\ gpc' = "failed"
                /\ gresult'.error.message = <<"No", "response", "from", "AI", "model.">>]_vars

\* the response with a text part, then two inline images, was interpreted
C14_Witness ==
    /\ gpc = "succeeded" /\ gresult = Ok("img3")
    /\ Len(requests) = 2
    /\ config.modelId = GEMINI_3_PRO

OnImagenPath == Started /\ apiKey /\ config.modelId = IMAGEN_4

\* C15: on the text-to-image path every request carries the resolved ratio
\* unchanged, one of 1:1, 3:4, 4:3, 16:9, 9:16; when the call resolves with at
\* least one generated image generate returns the first one, and when it
\* resolves with none generate fails with the generation error.
C15_ImagenPath ==
    [][OnImagenPath =>
          /\ targetRatio \in {"1:1", "3:4", "4:3", "16:9", "9:16"}
          /\ config.aspectRatio # SAME_AS_SOURCE => targetRatio = config.aspectRatio
          /\ \A k \in 1..Len(requests) : requests[k].aspectRatio = targetRatio
          /\ ImagenReturned =>
                IF rresult[1].generatedImages # <<>>
                  THEN /\ gpc' = "succeeded"
                       /\ gresult' = Ok(rresult[1].generatedImages[1])
                  ELSE /\ gpc' = "failed"
                       /\ ~gresult'.ok
                       /\ gresult'.error.message =
                             <<"Imagen", "Generation", "Failed:", "No", "image", "generated", "by", "Imagen.">>]_vars

\* two images came back, the first is returned; the ratio is the landscape one
C15_Witness ==
    /\ OnImagenPath
    /\ config.aspectRatio = LANDSCAPE
    /\ gpc = "succeeded" /\ gresult = Ok("gen2")
    /\ requests[1].aspectRatio = "4:3"

\* ---- retries within one generate call
RemoteKinds == {"analyze", "edit", "imagen"}

LastOutcome == outcomes[Len(outcomes)]

\* C16: within one generate call, at most 3 text-to-image requests are issued
\* on the text-to-image path, and at most 3 analysis and 3 edit requests on
\* the editing path; a remote call is repeated only after its last
\* invocation failed with a rate-limit-classified error and fewer than 3
\* invocations were made; and once an invocation resolved (whatever the
\* response holds) or failed with another error, the run has ended and no
\* request of that kind follows.
C16_OnlyRateLimitRetried ==
    [][Started =>
          /\ IF config.modelId = IMAGEN_4
               THEN /\ Cardinality(RequestsOfKind("imagen")) <= 3
                    /\ RequestsOfKind("analyze") = {} /\ RequestsOfKind("edit") = {}
               ELSE /\ Cardinality(RequestsOfKind("analyze")) <= 3
                    /\ Cardinality(RequestsOfKind("edit")) <= 3
                    /\ RequestsOfKind("imagen") = {}
          /\ \A kind \in RemoteKinds :
                (RequestsOfKind(kind) # {} /\ RequestsOfKind(kind)' # RequestsOfKind(kind)) =>
                    /\ rop = kind /\ rpc = "waiting"
                    /\ RateLimited(Len(outcomes))
                    /\ Len(outcomes) < DefaultRetries
          /\ \A kind \in RemoteKinds :
                (rop = kind /\ outcomes # <<>>
                   /\ (LastOutcome.ok \/ ~isRateLimit(LastOutcome.value))) =>
                    /\ rpc \in {"returned", "threw"}
                    /\ RequestsOfKind(kind)' = RequestsOfKind(kind)
          /\ Finished => requests' = requests]_vars

\* both remote calls of the editing path used their whole budget
C16_Witness ==
    /\ Finished
    /\ Cardinality(RequestsOfKind("analyze")) = 3
    /\ Cardinality(RequestsOfKind("edit")) = 3

\* ---- the feature of a Custom transfer
\* the instruction lines into which the custom feature text is interpolated
FeatureTags == {"Analyze the image and provide a detailed description of the following feature:",
                "MODE: CUSTOM TRANSFER"}

Blank(str) == Trim(str) = <<>>

\* C17: in Custom reference mode with a reference image, whatever
\* customReferencePrompt is, no analysis request and no edit request carries
\* an instruction whose feature placeholder is filled with an empty or blank
\* string.
C17_FeatureNeverBlank ==
    (OnEditingPath /\ referenceImage # None /\ config.referenceMode = CUSTOM) =>
        \A k \in RequestsOfKind("analyze") \cup RequestsOfKind("edit") :
            \A n \in 1..Len(TextOf(requests[k])) :
                TextOf(requests[k])[n].tag \in FeatureTags => ~Blank(TextOf(requests[k])[n].arg)

\* ---- the App
\* a step of handleGenerate's synchronous part
Clicked == generations' = generations + 1

\* a step in which the awaited generate call settles in handleGenerate
Settled == isGenerating /\ ~isGenerating'

\* C18: when generate fails because its edit or text-to-image call used up
\* its attempts on rate-limit-classified errors (by message marker or by
\* status/code 429), the message shown to the user is the server-busy one.
C18_ExhaustionShownAsServerBusy ==
    [][(Settled /\ exhausted) => uiError' = Some(MsgServerBusy)]_vars

FieldsValid ==
    /\ uiSourceImage # None \/ selectedModel = IMAGEN_4
    /\ ~Blank(uiPrompt) \/ useRefImage
    /\ useRefImage => refImage # None
    /\ (useRefImage /\ refMode = CUSTOM) => ~Blank(customRefPrompt)

ValidationMessages == {MsgNoSource, MsgNoPrompt, MsgNoReference, MsgNoFeature}

\* C19: generateFutureImage is entered only by a click made while every field
\* check holds, and such a click does enter it; a click made while a check
\* fails enters nothing, issues no request, sets one of the validation
\* messages as the error, and leaves isGenerating, generatedImage and history
\* as they were.
C19_ValidatedBeforeCall ==
    [][/\ (gpc = "idle" /\ gpc' # "idle") => (Clicked /\ FieldsValid)
       /\ inFlight' > inFlight => (Clicked /\ FieldsValid)
       /\ (Clicked /\ FieldsValid) => (gpc' # "idle" /\ inFlight' = inFlight + 1)
       /\ (Clicked /\ ~FieldsValid) =>
             /\ gpc' = "idle" /\ rpc' = "idle" /\ epc' = "idle"
             /\ requests' = <<>> /\ compressLog' = <<>>
             /\ inFlight' = inFlight
             /\ uiError' # None /\ uiError'[1] \in ValidationMessages
             /\ isGenerating' = isGenerating
             /\ generatedImage' = generatedImage
             /\ uiHistory' = uiHistory]_vars

\* a click refused for a blank feature text, after a generation that succeeded
C19_Witness ==
    /\ generations = 2
    /\ uiError = Some(MsgNoFeature)
    /\ customRefPrompt = <<" ">>
    /\ ~isGenerating /\ gpc = "idle"
    /\ generatedImage # None /\ Len(uiHistory) = 1

\* C20: at most one call of generateFutureImage is in flight; isGenerating is
\* true exactly while one is; and while isGenerating is true no click on
\* Generate is taken, whatever inputs are changed and whichever remote
\* completions arrive meanwhile.
C20_SingleFlight ==
    [][/\ inFlight <= 1
       /\ isGenerating <=> inFlight = 1
       /\ gpc # "idle" => isGenerating
       /\ isGenerating => (~Clicked /\ inFlight' <= 1)]_vars

\* the second generation is waiting to retry while a feature extraction
\* started meanwhile is pending
C20_Witness ==
    /\ generations = 2 /\ inFlight = 1 /\ isGenerating
    /\ isExtracting /\ formActions = 1
    /\ uiHistory # <<>>
    /\ rpc = "waiting" /\ rop = "edit"

\* ---- the image helpers
\* the supported entry returned for imgWidth x imgHeight
ClosestIndex == CHOOSE k \in 1..Len(Supported) : Supported[k].str = closest[1]

\* the distance of entry k from imgWidth / imgHeight, in units of 1 / (10000 * imgHeight)
Distance(k) == Abs(Supported[k].val * imgHeight - 10000 * imgWidth)

\* C21: the value returned for a positive width and height is the string of
\* an entry of the ordered set whose value is at the smallest absolute
\* difference from width/height, and no entry earlier in the order is as close.
C21_ClosestFirstOnTie ==
    closest # None =>
        /\ \E k \in 1..Len(Supported) : Supported[k].str = closest[1]
        /\ \A j \in 1..Len(Supported) : Distance(ClosestIndex) <= Distance(j)
        /\ \A j \in 1..(ClosestIndex - 1) : Distance(ClosestIndex) < Distance(j)

\* 31:20 is as far from 4:3 as from 16:9; 4:3 comes first
C21_Witness ==
    /\ imgWidth = 31 /\ imgHeight = 20
    /\ closest = Some("4:3")
    /\ Distance(3) = Distance(5)

\* imgWidth / imgHeight exceeds the midpoint between 1.0 and the nearest
\* landscape value (1.33)
PastLandscapeMidpoint ==
    2 * 10000 * imgWidth > (Supported[1].val + Supported[3].val) * imgHeight

\* C22: for an image wider than high whose ratio exceeds the midpoint between
\* 1.0 and the nearest landscape value, the value returned is never a portrait
\* ratio (3:4 or 9:16); for a square image it is 1:1.
C22_NoPortraitForLandscape ==
    closest # None =>
        /\ (imgWidth > imgHeight /\ PastLandscapeMidpoint)
              => closest[1] \notin {PORTRAIT, WIDE_PORTRAIT}
        /\ imgWidth = imgHeight => closest[1] = SQUARE

\* 6:5 = 1.2 is past the midpoint 1.165 and resolves to 4:3
C22_Witness ==
    /\ imgWidth = 6 /\ imgHeight = 5
    /\ PastLandscapeMidpoint
    /\ closest = Some(LANDSCAPE)

Max(a, b) == IF a >= b THEN a ELSE b

\* C23: whenever compressImage resolves for an image of imgWidth x imgHeight,
\* the longer side of the output is at most 1024, the output's sides are
\* within one pixel (of the shorter side) of the input's proportion, and the
\* output mimeType is image/jpeg whatever imgMimeType was.
C23_CompressBounded ==
    (compressed # None /\ compressed[1].ok) =>
        /\ Max(compressed[1].width, compressed[1].height) <= MAX_SIZE
        /\ Abs(compressed[1].width * imgHeight - compressed[1].height * imgWidth)
              <= Max(imgWidth, imgHeight)
        /\ compressed[1].mimeType = "image/jpeg"

\* a 4096 x 1080 png comes out as a 1024 x 270 jpeg
C23_Witness ==
    /\ imgWidth = 4096 /\ imgHeight = 1080 /\ imgMimeType = "image/png"
    /\ compressed = Some([ok |-> TRUE, mimeType |-> "image/jpeg",
                          width |-> 1024, height |-> 270])

\* ---- the edit request's configuration
Thresholds(request) ==
    {request.safetySettings[k].threshold : k \in 1..Len(request.safetySettings)}

\* C24: an edit request carries imageSize exactly when the selected model is
\* the higher-quality editor (never for the fast editor or by default), and
\* every edit request carries the same four safety settings with one and the
\* same threshold.
C24_ImageSizeOnlyForPro ==
    \A k \in RequestsOfKind("edit") :
        /\ requests[k].imageSize # "" <=> config.modelId = GEMINI_3_PRO
        /\ config.modelId = GEMINI_3_PRO => requests[k].imageSize = "1K"
        /\ Len(requests[k].safetySettings) = 4
        /\ Thresholds(requests[k]) = {"BLOCK_ONLY_HIGH"}
        /\ \A j \in RequestsOfKind("edit") :
              requests[j].safetySettings = requests[k].safetySettings

\* the higher-quality editor was selected and its edit request was retried:
\* two requests of one call, each with the hint
C24_Witness ==
    /\ config.modelId = GEMINI_3_PRO
    /\ Cardinality(RequestsOfKind("edit")) >= 2
    /\ \A k \in RequestsOfKind("edit") : requests[k].imageSize = "1K"

\* ---- the phases of one generate call
Rank(phase) ==
    CASE phase = "idle" -> 0
      [] phase = "extracting" -> 1
      [] phase = "compressSource" -> 2
      [] phase = "compressRef" -> 3
      [] phase \in {"calling", "imagen"} -> 4
      [] phase \in {"succeeded", "failed"} -> 5

\* a step of a call on an editing model that changes its phase
PhaseStep ==
    (gpc' # gpc /\ ~(Finished /\ gpc' = "idle") /\ config'.modelId # IMAGEN_4) =>
        /\ Rank(gpc') > Rank(gpc)
        /\ gpc' = "extracting" => gpc = "idle"
        /\ gpc' = "compressSource" => gpc \in {"idle", "extracting"}
        /\ gpc' = "compressRef" => gpc = "compressSource"
        /\ gpc' = "calling" =>
              /\ gpc \in {"compressSource", "compressRef"}
              /\ processedSource' # NoProcessed
              /\ parts' # <<>>
              /\ rop' = "edit" /\ rpc' # "idle"
        /\ gpc' = "succeeded" => gpc = "calling"

\* C25: a generate call on an editing model moves through extraction
\* (optional), compression, composition and the remote edit call to Succeeded
\* or Failed and never back to an earlier phase; and when every decode and
\* every remote call completes, every started call reaches Succeeded or
\* Failed and isGenerating returns to false.
C25_PhasesInOrderAndTerminate ==
    /\ [][PhaseStep]_vars
    /\ OnEditingPath ~> Finished
    /\ isGenerating ~> ~isGenerating

\* a call that went through every phase and succeeded, not yet reported
C25_Witness ==
    /\ gpc = "succeeded" /\ isGenerating
    /\ config.modelId = GEMINI_2_5
    /\ guidanceDescription # <<>> /\ processedRef # None
    /\ Cardinality(RequestsOfKind("edit")) >= 2

\* ---- retry budgets
\* this step starts a run of retryOperation for a remote call of this kind
RunBegins(kind) ==
    /\ rop' = kind /\ rpc' \in {"calling", "threw"}
    /\ ~(rop = kind /\ rpc \in {"calling", "waiting"})

\* C26: every run of retryOperation inside a generate call (the analysis
\* call, then the edit call, and those of a later generate call) starts with
\* no attempt made, the full budget of 3 and the base delay, whatever the
\* runs before it used; so its waits start again at the base delay.
C26_BudgetsNotShared ==
    /\ [][\A kind \in RemoteKinds :
            RunBegins(kind) =>
                /\ rpc' = "calling" /\ ri' = 0
                /\ retries' = DefaultRetries /\ initialDelay' = DefaultInitialDelay
                /\ outcomes' = <<>> /\ waits' = <<>>]_vars
    /\ [](rop \in RemoteKinds =>
            /\ Len(outcomes) <= DefaultRetries
            /\ \A k \in 1..Len(waits) : waits[k] = DefaultInitialDelay * Pow2(k - 1))

\* in a second generate call, after the analysis call used its 3 attempts,
\* the edit call used 3 attempts of its own with waits of 2000 and 4000
C26_Witness ==
    /\ generations = 2 /\ uiHistory # <<>>
    /\ Cardinality(RequestsOfKind("analyze")) = 3
    /\ rop = "edit" /\ Len(outcomes) = 3
    /\ waits = <<2000, 4000>>

\* ---- the waits of one run of retryOperation
\* the invocations of the operation made so far, the pending one included
Invocations == Len(outcomes) + (IF rpc = "calling" THEN 1 ELSE 0)

\* C27: the wait that precedes invocation number j + 1 of a run (j >= 1
\* invocations made before it) is initialDelay * 2^(j - 1); every further
\* invocation is preceded by exactly one new wait, and the waits number one
\* less than the invocations made.
C27_ExponentialWaits ==
    /\ [](\A k \in 1..Len(waits) : waits[k] = initialDelay * Pow2(k - 1))
    /\ [](Invocations >= 1 => Len(waits) = Invocations - 1)
    /\ [][(Invocations >= 1 /\ Invocations' = Invocations + 1) =>
            waits' = Append(waits, initialDelay * Pow2(Invocations - 1))]_vars

\* four invocations of a run with a base delay of 500: waits 500, 1000, 2000
C27_Witness ==
    /\ rop = "op" /\ retries = 4 /\ initialDelay = 500
    /\ Invocations = 4
    /\ waits = <<500, 1000, 2000>>

\* ---- the transfer directive of an edit instruction
\* the heading of each mode's directive
DirectiveTags ==
    [m \in ReferenceMode |->
        CASE m = POSE -> "MODE: POSE MATCHING"
          [] m = DRESS -> "MODE: OUTFIT TRANSFER"
          [] m = EXPRESSION -> "MODE: EXPRESSION MATCHING"
          [] m = STYLE -> "MODE: STYLE TRANSFER"
          [] m = BACKGROUND -> "MODE: BACKGROUND TRANSFER"
          [] m = COMPOSITION -> "MODE: COMPOSITION MATCHING"
          [] m = CUSTOM -> "MODE: CUSTOM TRANSFER"]

\* the lines of a text that head a transfer directive
DirectiveLines(text) ==
    {n \in 1..Len(text) : \E m \in ReferenceMode : text[n].tag = DirectiveTags[m]}

\* C29: the instruction of an edit request with a reference image (three
\* parts) holds exactly one transfer directive, the one of
\* config.referenceMode; the instruction of an edit request without a
\* reference image holds no transfer directive and no guidance block.
C29_OneDirectiveForMode ==
    \A e \in RequestsOfKind("edit") :
        IF Len(requests[e].parts) = 3
          THEN /\ Cardinality(DirectiveLines(TextOf(requests[e]))) = 1
               /\ config.referenceMode \in ReferenceMode
               /\ \A n \in DirectiveLines(TextOf(requests[e])) :
                     TextOf(requests[e])[n].tag = DirectiveTags[config.referenceMode]
          ELSE /\ DirectiveLines(TextOf(requests[e])) = {}
               /\ ~HasLine(TextOf(requests[e]), GuidanceTag)

\* ---- the extracted description
\* C30: a description is displayed only for the reference image and the
\* reference mode it was extracted from: the step that sets extractedText
\* sets a text extracted from the image and the mode selected at that
\* moment, and no step changes the reference image or the mode while keeping
\* a displayed description.
C30_NoStaleDescription ==
    [][extractedText' # None =>
          IF extractedText = None
            THEN /\ extractArgs # None
                 /\ refImage' = Some(extractArgs[1].image)
                 /\ refMode' = extractArgs[1].mode
            ELSE refImage' = refImage /\ refMode' = refMode]_vars

\* ---- the stage and the history at the end of a generate call
\* C28: when the awaited generate call succeeds, its result is put in front
\* of the history list, whose earlier entries keep their order, and becomes
\* the current image; when it fails, the history list is unchanged, no image
\* is shown and an error message is set.
C28_HistoryAndStage ==
    [][Settled =>
          IF gresult.ok
            THEN /\ uiHistory' = <<gresult.value>> \o uiHistory
                 /\ generatedImage' = Some(gresult.value)
            ELSE /\ uiHistory' = uiHistory
                 /\ generatedImage' = None
                 /\ uiError' # None /\ uiError'[1] # <<>>]_vars

\* ---- the ratio sent after a generated image became the source
\* the requests that carry an aspect ratio
RatioRequests == RequestsOfKind("edit") \cup RequestsOfKind("imagen")

\* C31: a step that moves the generated image to the source slot leaves a
\* source without width and height; a generate call on such a source with
\* SAME_AS_SOURCE sends 1:1 in every request, whatever the size of the
\* upload was; and a generate call with an explicit aspect ratio sends
\* exactly that ratio, whatever the source is.
C31_MovedSourceIsSquare ==
    /\ [][uiSourceImage' # uiSourceImage =>
            /\ generatedImage # None
            /\ uiSourceImage'[1].data = generatedImage[1]
            /\ uiSourceImage'[1].width = None /\ uiSourceImage'[1].height = None]_vars
    /\ [](Started =>
            \A k \in RatioRequests :
                IF config.aspectRatio = SAME_AS_SOURCE
                  THEN sourceImage.width = None => requests[k].aspectRatio = "1:1"
                  ELSE /\ config.aspectRatio = uiAspectRatio
                       /\ requests[k].aspectRatio = uiAspectRatio)
    /\ [](Started =>
            \A r \in AspectRatio \ {SAME_AS_SOURCE} :
                /\ ResolveRatio(r, sourceImage.width, sourceImage.height) = r
                /\ ImagenAspect(r) = r)

\* the second call of a session: its source is the image the first call
\* generated from an 800 x 600 upload, and its edit request asks for 1:1
C31_Witness ==
    /\ generations = 2 /\ uiAspectRatio = SAME_AS_SOURCE
    /\ sourceImage = Asset("img1", "image/png", None, None, TRUE)
    /\ RequestsOfKind("edit") # {}
    /\ \A k \in RequestsOfKind("edit") : requests[k].aspectRatio = "1:1"

\* ---- the size compressImage draws at
\* C32: whenever compressImage resolves for an image of imgWidth x imgHeight,
\* an image with both sides at most 1024 keeps its exact size, and both sides
\* of the output are at least 1.
C32_NoUpscaleNoDegenerate ==
    (compressed # None /\ compressed[1].ok) =>
        /\ (imgWidth <= MAX_SIZE /\ imgHeight <= MAX_SIZE) =>
              /\ compressed[1].width = imgWidth
              /\ compressed[1].height = imgHeight
        /\ compressed[1].width >= 1
        /\ compressed[1].height >= 1

====
